---- MODULE Spec2Model ----
(***************************************************************************)
(* A model of the GSWiki archive tools: the crawl orchestrator and its     *)
(* manifest (scripts/crawl.py), the filename codec (lib/filename_utils.py  *)
(* and its copy in scripts/crawl.py) and the API client's request loop     *)
(* (lib/wiki_api.py).                                                      *)
(*                                                                         *)
(* Strings the programs compute with (titles, filenames) are sequences of  *)
(* one-character strings, so that str.replace, startswith and the          *)
(* concatenations are computed as Python computes them.                    *)
(***************************************************************************)
EXTENDS Integers, Sequences, FiniteSets, TLC

(***************************************************************************)
(* Bounds of the model.                                                    *)
(***************************************************************************)
\* a title given to the codec is made of at most MaxFrags fragments
MaxFrags == 2
\* WikiAPI is constructed with max_retries in 0..MaxRetriesArg
MaxRetriesArg == 3
\* the clock runs from tick 0 to MaxTick
MaxTick == 2
\* clock ticks per calendar minute (the resolution of "%Y-%m-%d %H:%M")
TicksPerMinute == 2
\* edits and deletions on the remote wiki in one behaviour
MaxEdits == 1

(***************************************************************************)
(* Configuration (config.json, read at scripts/crawl.py:27-46).            *)
(***************************************************************************)
MAX_RETRIES == 3
\* titles per list response (aplimit / rclimit / eilimit), scaled down
BatchSize == 2

\* Python's None for last_crawl; timestamps are minute numbers >= 0
None == -1

VARIABLES
    now,             \* wall clock, in ticks
    remotePages,     \* titles that exist on the remote wiki
    lastChange,      \* title -> tick of its latest edit|new change, or None
    edits,           \* remote edits and deletions so far
    manifestFile,    \* data/manifest.json: [exists, pages, last_crawl]
    wikiDir,         \* docs/wiki: filename -> crawl timestamp in its banner
    pc,              \* position of the running invocation
    invoked,         \* mode given on the command line
    path,            \* function that is executing: "full" or "incr"
    manifest,        \* the in-memory manifest dict of the run
    crawl_timestamp, \* timestamp taken by the run
    all_pages,       \* crawl_full: listed pages still to process, in order
    changed_pages,   \* crawl_incremental: changed titles still to process
    char_pages,      \* template-derived exclusion set of the run
    processed, skipped, failed,   \* the run's counters
    result,          \* how the last run returned
    hist,            \* what the run did (read by the properties only)
    c_pc,            \* filename codec: position in title_to_filename / filename_to_title
    c_title,         \* the title given to title_to_filename
    c_k,             \* replace lines executed in the current function
    c_safe,          \* title_to_filename's local "safe"
    c_filename,      \* what title_to_filename returned
    c_work,          \* filename_to_title's local "title"
    c_log,           \* the reserved characters substituted, in order
    r_pc,            \* WikiAPI.request: position
    r_max,           \* self.max_retries
    r_attempt,       \* the loop variable "attempt"
    r_events,        \* sleeps and GETs so far, in order
    r_result,        \* what request returned
    l_pc,            \* WikiAPI.get_all_pages / get_namespaces: position
    l_nsdata,        \* the response to the siteinfo request
    l_namespaces,    \* the list get_namespaces returned
    l_i,             \* index of the namespace being listed
    l_apcontinue,    \* params["apcontinue"], None while it is not set
    l_pages,         \* the accumulated list "pages"
    l_log,           \* list requests so far, each with its response
    x_pc,            \* WikiAPI.export_pages: position
    x_titles,        \* the argument titles
    x_params,        \* params["titles"]
    x_events,        \* sleeps and GETs so far, in order
    x_result,        \* what export_pages returned
    s_pc,            \* a crawl run and its save_manifest: position
    s_file,          \* data/manifest.json on disk: [exists, text]
    s_saved,         \* what the last completed save_manifest wrote
    s_manifest,      \* the manifest dict the run saves
    s_loaded,        \* what a later load_manifest did
    w_pc,            \* rewrite_internal_links: position
    w_in,            \* the anchors of the page as fetched
    w_soup,          \* the anchors of the soup, rewritten in place
    w_once,          \* the soup as the first rewriting left it
    b_pc,            \* process_page after the link and image steps: position
    b_head,          \* the soup's <head>: [present, nodes]
    b_body,          \* the soup's <body>: [present, nodes]
    i_pc,            \* import-content.py main: position
    i_modes,         \* the modes selected on the command line
    i_initial,       \* LocalSettings.php before main ran
    i_settings,      \* LocalSettings.php now
    i_events,        \* calls made by main, in order
    k_pc,            \* two concurrent invocations of crawl.py: the position of each
    k_file,          \* data/manifest.json, shared by the two
    k_manifest,      \* the manifest dict of each invocation
    k_ts,            \* the crawl_timestamp of each invocation
    k_todo,          \* the changed titles each invocation has still to process
    k_wrote,         \* the titles whose entry each invocation assigned
    k_events         \* the load_manifest and save_manifest calls, in order

crawlVars == <<now, remotePages, lastChange, edits, manifestFile, wikiDir,
               pc, invoked, path, manifest, crawl_timestamp, all_pages,
               changed_pages, char_pages, processed, skipped, failed, result,
               hist>>

codecVars == <<c_pc, c_title, c_k, c_safe, c_filename, c_work, c_log>>
requestVars == <<r_pc, r_max, r_attempt, r_events, r_result>>
listingVars == <<l_pc, l_nsdata, l_namespaces, l_i, l_apcontinue, l_pages, l_log>>
exportVars == <<x_pc, x_titles, x_params, x_events, x_result>>
saveVars == <<s_pc, s_file, s_saved, s_manifest, s_loaded>>
linksVars == <<w_pc, w_in, w_soup, w_once>>
pageVars == <<b_pc, b_head, b_body>>
importerVars == <<i_pc, i_modes, i_initial, i_settings, i_events>>
raceVars == <<k_pc, k_file, k_manifest, k_ts, k_todo, k_wrote, k_events>>
vars == <<crawlVars, codecVars, requestVars, listingVars, exportVars, saveVars, linksVars, pageVars, importerVars, raceVars>>

\* what the actions of one machine leave alone
notCrawlVars == <<codecVars, requestVars, listingVars, exportVars, saveVars, linksVars, pageVars, importerVars, raceVars>>
notCodecVars == <<crawlVars, requestVars, listingVars, exportVars, saveVars, linksVars, pageVars, importerVars, raceVars>>
notRequestVars == <<crawlVars, codecVars, listingVars, exportVars, saveVars, linksVars, pageVars, importerVars, raceVars>>
notListingVars == <<crawlVars, codecVars, requestVars, exportVars, saveVars, linksVars, pageVars, importerVars, raceVars>>
notExportVars == <<crawlVars, codecVars, requestVars, listingVars, saveVars, linksVars, pageVars, importerVars, raceVars>>
notSaveVars == <<crawlVars, codecVars, requestVars, listingVars, exportVars, linksVars, pageVars, importerVars, raceVars>>
notLinksVars == <<crawlVars, codecVars, requestVars, listingVars, exportVars, saveVars, pageVars, importerVars, raceVars>>
notPageVars == <<crawlVars, codecVars, requestVars, listingVars, exportVars, saveVars, linksVars, importerVars, raceVars>>
notImporterVars == <<crawlVars, codecVars, requestVars, listingVars, exportVars, saveVars, linksVars, pageVars, raceVars>>
notRaceVars == <<crawlVars, codecVars, requestVars, listingVars, exportVars, saveVars, linksVars, pageVars, importerVars>>

remoteVars == <<remotePages, lastChange, edits>>
runVars == <<pc, invoked, path, manifest, crawl_timestamp, all_pages,
             changed_pages, char_pages, processed, skipped, failed, result, hist>>

(***************************************************************************)
(* Filename codec.                                                         *)
(***************************************************************************)
DotHtml == <<".", "h", "t", "m", "l">>

\* the nine (reserved character, token) pairs, in the order of the source
Subs ==
    << [lit |-> <<"/">>,  tok |-> <<"_","S","L","A","S","H","_">>],
       [lit |-> <<"\\">>, tok |-> <<"_","B","A","C","K","S","L","A","S","H","_">>],
       [lit |-> <<":">>,  tok |-> <<"_","C","O","L","O","N","_">>],
       [lit |-> <<"*">>,  tok |-> <<"_","S","T","A","R","_">>],
       [lit |-> <<"?">>,  tok |-> <<"_","Q","U","E","S","T","I","O","N","_">>],
       [lit |-> <<"\"">>, tok |-> <<"_","Q","U","O","T","E","_">>],
       [lit |-> <<"<">>,  tok |-> <<"_","L","T","_">>],
       [lit |-> <<">">>,  tok |-> <<"_","G","T","_">>],
       [lit |-> <<"|">>,  tok |-> <<"_","P","I","P","E","_">>] >>

\* str.startswith
StartsWith(s, prefix) == Len(s) >= Len(prefix) /\ SubSeq(s, 1, Len(prefix)) = prefix

\* str.replace(old, new): every non-overlapping occurrence, scanning from the left
\* (the leftmost occurrence is replaced, then the rest of the string after it)
RECURSIVE Replace(_, _, _)
Replace(s, old, new) ==
    LET hits == {i \in 1..(Len(s) - Len(old) + 1) : SubSeq(s, i, i + Len(old) - 1) = old}
    IN  IF hits = {} THEN s
        ELSE LET first == CHOOSE i \in hits : \A j \in hits : i <= j
             IN  SubSeq(s, 1, first - 1) \o new
                    \o Replace(SubSeq(s, first + Len(old), Len(s)), old, new)

\* the order in which title_to_filename applies the substitutions
EncodeOrder == <<1, 2, 3, 4, 5, 6, 7, 8, 9>>

\* a bug DecodeOrder could have: the inverse substitutions run last to first
DecodeOrder_reversed == <<9, 8, 7, 6, 5, 4, 3, 2, 1>>

\* the order in which filename_to_title applies the inverse substitutions
DecodeOrder == <<1, 2, 3, 4, 5, 6, 7, 8, 9>>

\* one line "safe = safe.replace(lit, tok)"
EncodeStep(s, k) == Replace(s, Subs[EncodeOrder[k]].lit, Subs[EncodeOrder[k]].tok)

\* one line "title = title.replace(tok, lit)"
DecodeStep(s, k) == Replace(s, Subs[DecodeOrder[k]].tok, Subs[DecodeOrder[k]].lit)

RECURSIVE EncodeFrom(_, _)
EncodeFrom(s, k) == IF k > Len(EncodeOrder) THEN s ELSE EncodeFrom(EncodeStep(s, k), k + 1)

RECURSIVE DecodeFrom(_, _)
DecodeFrom(s, k) == IF k > Len(DecodeOrder) THEN s ELSE DecodeFrom(DecodeStep(s, k), k + 1)

\* filename.replace(".html", "")
StripHtml(filename) == Replace(filename, DotHtml, <<>>)

title_to_filename(title) == EncodeFrom(title, 1) \o DotHtml

filename_to_title(filename) == DecodeFrom(StripHtml(filename), 1)


(***************************************************************************)
(* The remote wiki and the configuration the crawler runs against.         *)
(***************************************************************************)
TitleA == <<"A">>
TitleB == <<"B">>
TitleD == <<"U", ":", "D">>
Titles == {TitleA, TitleB, TitleD}

\* the order in which the API lists titles
ListingOrder == <<TitleA, TitleB, TitleD>>

\* CONFIG["exclusions"]["namespaces_to_skip"]
NamespacesToSkip == {<<"U", ":">>}

\* pages that embed a template of CONFIG["exclusions"]["templates"]
RemoteCharPages == {TitleA, TitleB}

\* content of the opted-in file
OptedIn == {TitleA, TitleD}

\* datetime.now(timezone.utc).strftime("%Y-%m-%d %H:%M"): the minute of a tick
FormatMinute(tick) == tick \div TicksPerMinute

\* strptime("%Y-%m-%d %H:%M") then strftime("%Y-%m-%dT%H:%M:%SZ"): second 00 of
\* the minute
ToApi(minute) == minute * TicksPerMinute

\* the titles of S as the API lists them
RemoteList(S) == SelectSeq(ListingOrder, LAMBDA t : t \in S)

\* list=recentchanges lists the newest change first
RECURSIVE RcListFrom(_, _, _)
RcListFrom(S, lc, tick) ==
    IF tick < 0 THEN <<>>
    ELSE RemoteList({t \in S : lc[t] = tick}) \o RcListFrom(S, lc, tick - 1)

\* requests a complete listing of seq takes (an empty listing takes one)
NumBatches(seq) ==
    IF Len(seq) = 0 THEN 1 ELSE (Len(seq) + BatchSize - 1) \div BatchSize

\* the "while True" pagination loop: batches are accumulated until a request
\* returns None (after okRequests successful ones) or carries no "continue"
Paginate(seq, okRequests) ==
    IF okRequests * BatchSize >= Len(seq) THEN seq
    ELSE SubSeq(seq, 1, okRequests * BatchSize)

SeqToSet(seq) == {seq[i] : i \in DOMAIN seq}

get_all_pages(remote, okRequests) == Paginate(RemoteList(remote), okRequests)

get_character_pages(okRequests) ==
    SeqToSet(Paginate(RemoteList(RemoteCharPages), okRequests))

\* titles with an edit|new change between rcend and rcstart
ChangedBetween(lc, rcend, rcstart) ==
    {t \in Titles : lc[t] # None /\ rcend <= lc[t] /\ lc[t] <= rcstart}

RcList(lc, rcend, rcstart) == RcListFrom(ChangedBetween(lc, rcend, rcstart), lc, rcstart)

get_recent_changes(lc, since_timestamp, tick, okRequests) ==
    SeqToSet(Paginate(RcList(lc, since_timestamp, tick), okRequests))

(***************************************************************************)
(* Manifest store.                                                         *)
(***************************************************************************)
NoPages == [t \in {} |-> [filename |-> <<>>, crawled |-> 0]]

DefaultManifest == [pages |-> NoPages, last_crawl |-> None, version |-> 1]

load_manifest(file) == IF file.exists THEN file.content ELSE DefaultManifest

save_manifest(m) == [exists |-> TRUE, content |-> m]

\* a bug UpsertPage could have: the entry records the title where the filename
\* belongs
UpsertPage_title_as_filename(pages, title, filename, ts) ==
    [t \in (DOMAIN pages) \cup {title} |->
        IF t = title THEN [filename |-> title, crawled |-> ts] ELSE pages[t]]

\* a bug UpsertPage could have: the assignment replaces the whole "pages" dict
UpsertPage_replaces(pages, title, filename, ts) ==
    [t \in {title} |-> [filename |-> filename, crawled |-> ts]]

\* manifest["pages"][title] = {"filename": filename, "crawled": crawl_timestamp}
UpsertPage(pages, title, filename, ts) ==
    [t \in (DOMAIN pages) \cup {title} |->
        IF t = title THEN [filename |-> filename, crawled |-> ts] ELSE pages[t]]

\* crawl_full: manifest = {"pages": {}, "last_crawl": crawl_timestamp, "version": 1}
FullCrawlManifest(ts) == [pages |-> NoPages, last_crawl |-> ts, version |-> 1]

\* a bug DegradesToFull could have: the check for a missing last_crawl is lost
DegradesToFull_never(last_crawl) == FALSE

\* crawl_incremental: "if not last_crawl" runs crawl_full instead
DegradesToFull(last_crawl) == last_crawl = None

\* a bug ReturnsEarly could have: an empty change set is processed like any other
ReturnsEarly_never(changed) == FALSE

\* crawl_incremental: "if not changed_pages" returns without saving
ReturnsEarly(changed) == changed = {}

\* a bug AdvanceLastCrawl could have: the assignment is missing
AdvanceLastCrawl_forgotten(m, ts) == m

\* crawl_incremental: manifest["last_crawl"] = crawl_timestamp
AdvanceLastCrawl(m, ts) == [m EXCEPT !.last_crawl = ts]

(***************************************************************************)
(* Per-page processing.                                                    *)
(***************************************************************************)
\* a bug should_skip_page could have: the opted-in list is consulted first and
\* overrides the namespace prefixes as well
should_skip_page_opted_in_first(title, chars, opted_in) ==
    /\ title \notin opted_in
    /\ \/ \E ns \in NamespacesToSkip : StartsWith(title, ns)
       \/ title \in chars

should_skip_page(title, chars, opted_in) ==
    \/ \E ns \in NamespacesToSkip : StartsWith(title, ns)
    \/ title \in chars /\ title \notin opted_in

\* what one GET of a page can end in: a 2xx response with text, a 2xx response
\* with an empty body, or a requests.RequestException
AttemptOutcomes == {"ok", "empty", "error"}

\* a page that no longer exists answers 404 to every attempt
FetchOutcomes(title, remote) ==
    IF title \in remote THEN [1..MAX_RETRIES -> AttemptOutcomes]
    ELSE {[i \in 1..MAX_RETRIES |-> "error"]}

\* fetch_page_html: response.text of the first attempt that does not raise,
\* "None" when every attempt raised
RECURSIVE FetchFrom(_, _)
FetchFrom(outcomes, attempt) ==
    IF attempt > MAX_RETRIES THEN "None"
    ELSE IF outcomes[attempt] = "ok" THEN "html"
    ELSE IF outcomes[attempt] = "empty" THEN ""
    ELSE FetchFrom(outcomes, attempt + 1)

fetch_page_html(outcomes) == FetchFrom(outcomes, 1)

\* process_page: "if not html: return None", else the transformed page
process_page(outcomes) ==
    IF fetch_page_html(outcomes) \in {"None", ""} THEN "None" ELSE "page"

AllAttemptsFailed(outcomes) == \A i \in 1..MAX_RETRIES : outcomes[i] = "error"

(***************************************************************************)
(* Crawl orchestrator: one invocation of scripts/crawl.py at a time.       *)
(***************************************************************************)
NoHistory ==
    [preFile |-> [exists |-> FALSE, content |-> DefaultManifest],
     loaded_last_crawl |-> None, since |-> None, listed |-> {},
     listing_complete |-> TRUE, fetched |-> {}, exhausted |-> {},
     written |-> {}]

CrawlInit ==
    /\ now = 0
    /\ remotePages = Titles
    /\ lastChange = [t \in Titles |-> None]
    /\ edits = 0
    /\ manifestFile = [exists |-> FALSE, content |-> DefaultManifest]
    /\ wikiDir = [f \in {} |-> 0]
    /\ pc = "idle"
    /\ invoked = "none"
    /\ path = "none"
    /\ manifest = DefaultManifest
    /\ crawl_timestamp = None
    /\ all_pages = <<>>
    /\ changed_pages = {}
    /\ char_pages = {}
    /\ processed = 0
    /\ skipped = 0
    /\ failed = 0
    /\ result = "none"
    /\ hist = NoHistory

\* The crawler reads the clock and the remote wiki when it starts, when it lists
\* and when it fetches a page; a step of the environment taken before one of
\* its other steps (get_character_pages, the final save, the return) has the
\* effect of the same step taken after it, and is taken after it.
EnvironmentVisible == pc \in {"idle", "get_all_pages", "get_recent_changes", "pages"}

\* time passes
Tick ==
    /\ EnvironmentVisible
    /\ now < MaxTick
    /\ now' = now + 1
    /\ UNCHANGED <<notCrawlVars, remoteVars, manifestFile, wikiDir, runVars>>

\* somebody edits or creates a page of the remote wiki
RemoteEdit ==
    /\ EnvironmentVisible
    /\ edits < MaxEdits
    /\ \E t \in Titles :
        /\ remotePages' = remotePages \cup {t}
        /\ lastChange' = [lastChange EXCEPT ![t] = now]
    /\ edits' = edits + 1
    /\ UNCHANGED <<notCrawlVars, now, manifestFile, wikiDir, runVars>>

\* somebody deletes a page of the remote wiki (not an edit|new change)
RemoteDelete ==
    /\ EnvironmentVisible
    /\ edits < MaxEdits
    /\ \E t \in remotePages : remotePages' = remotePages \ {t}
    /\ edits' = edits + 1
    /\ UNCHANGED <<notCrawlVars, now, lastChange, manifestFile, wikiDir, runVars>>

\* the first lines of crawl_full
EnterCrawlFull ==
    /\ path' = "full"
    /\ crawl_timestamp' = FormatMinute(now)
    /\ pc' = "get_all_pages"
    /\ changed_pages' = {}

\* main() with --full
StartFull ==
    /\ pc = "idle"
    /\ invoked' = "full"
    /\ EnterCrawlFull
    /\ manifest' = DefaultManifest
    /\ hist' = [NoHistory EXCEPT !.preFile = manifestFile]
    /\ all_pages' = <<>>
    /\ char_pages' = {}
    /\ processed' = 0 /\ skipped' = 0 /\ failed' = 0
    /\ result' = "running"
    /\ UNCHANGED <<notCrawlVars, now, remoteVars, manifestFile, wikiDir>>

\* main() with --incremental (the default): crawl_incremental up to its
\* crawl_timestamp
StartIncremental ==
    /\ pc = "idle"
    /\ invoked' = "incremental"
    /\ manifest' = load_manifest(manifestFile)
    /\ hist' = [NoHistory EXCEPT !.preFile = manifestFile,
                                 !.loaded_last_crawl = manifest'.last_crawl]
    /\ IF DegradesToFull(manifest'.last_crawl)
       THEN EnterCrawlFull
       ELSE /\ path' = "incr"
            /\ crawl_timestamp' = FormatMinute(now)
            /\ pc' = "get_recent_changes"
            /\ changed_pages' = {}
    /\ all_pages' = <<>>
    /\ char_pages' = {}
    /\ processed' = 0 /\ skipped' = 0 /\ failed' = 0
    /\ result' = "running"
    /\ UNCHANGED <<notCrawlVars, now, remoteVars, manifestFile, wikiDir>>

\* crawl_full: all_pages = get_all_pages(session)
ListAllPages ==
    /\ pc = "get_all_pages"
    /\ \E ok \in 0..NumBatches(RemoteList(remotePages)) :
        /\ all_pages' = get_all_pages(remotePages, ok)
        /\ hist' = [hist EXCEPT
                      !.listed = SeqToSet(all_pages'),
                      !.listing_complete = (ok = NumBatches(RemoteList(remotePages)))]
    /\ pc' = "exclusions"
    /\ UNCHANGED <<notCrawlVars, now, remoteVars, manifestFile, wikiDir, invoked, path,
                   manifest, crawl_timestamp, changed_pages, char_pages,
                   processed, skipped, failed, result>>

\* crawl_incremental: changed_pages = get_recent_changes(session, last_crawl_api)
\* and the early return when it is empty
ListRecentChanges ==
    /\ pc = "get_recent_changes"
    /\ LET since == ToApi(manifest.last_crawl)
           full == RcList(lastChange, since, now)
       IN \E ok \in 0..NumBatches(full) :
            /\ changed_pages' = get_recent_changes(lastChange, since, now, ok)
            /\ hist' = [hist EXCEPT !.listed = changed_pages',
                                    !.since = since,
                                    !.listing_complete = (ok = NumBatches(full))]
            /\ IF ReturnsEarly(changed_pages')
               THEN pc' = "returned" /\ result' = "no_changes"
               ELSE pc' = "exclusions" /\ result' = result
    /\ UNCHANGED <<notCrawlVars, now, remoteVars, manifestFile, wikiDir, invoked, path,
                   manifest, crawl_timestamp, all_pages, char_pages,
                   processed, skipped, failed>>

\* char_pages = get_character_pages(session); save_exclusions; opted_in; and, in
\* crawl_full, the fresh manifest
Exclusions ==
    /\ pc = "exclusions"
    /\ \E ok \in 0..NumBatches(RemoteList(RemoteCharPages)) :
        char_pages' = get_character_pages(ok)
    /\ manifest' = IF path = "full" THEN FullCrawlManifest(crawl_timestamp) ELSE manifest
    /\ pc' = "pages"
    /\ UNCHANGED <<notCrawlVars, now, remoteVars, manifestFile, wikiDir, invoked, path,
                   crawl_timestamp, all_pages, changed_pages,
                   processed, skipped, failed, result, hist>>

\* a bug CountSkipped could have: the excluded page is passed over uncounted
CountSkipped_uncounted(n) == n

\* "skipped += 1"
CountSkipped(n) == n + 1

\* the body of the "for" loops of crawl_full and crawl_incremental for one title
PageStep(title) ==
    IF should_skip_page(title, char_pages, OptedIn)
    THEN /\ skipped' = CountSkipped(skipped)
         /\ UNCHANGED <<processed, failed, manifest, wikiDir, hist>>
    ELSE \E outcomes \in FetchOutcomes(title, remotePages) :
         IF process_page(outcomes) # "None"
         THEN /\ wikiDir' = [f \in (DOMAIN wikiDir) \cup {title_to_filename(title)} |->
                               IF f = title_to_filename(title) THEN crawl_timestamp
                               ELSE wikiDir[f]]
              /\ manifest' = [manifest EXCEPT !.pages =
                                UpsertPage(@, title, title_to_filename(title),
                                           crawl_timestamp)]
              /\ processed' = processed + 1
              /\ hist' = [hist EXCEPT !.fetched = @ \cup {title},
                                      !.written = @ \cup {title}]
              /\ UNCHANGED <<skipped, failed>>
         ELSE /\ failed' = failed + 1
              /\ hist' = [hist EXCEPT
                            !.fetched = @ \cup {title},
                            !.exhausted = IF AllAttemptsFailed(outcomes)
                                          THEN @ \cup {title} ELSE @]
              /\ UNCHANGED <<processed, skipped, manifest, wikiDir>>

\* crawl_full: for i, page in enumerate(all_pages)
ProcessPageFull ==
    /\ pc = "pages" /\ path = "full"
    /\ all_pages # <<>>
    /\ PageStep(Head(all_pages))
    /\ all_pages' = Tail(all_pages)
    /\ UNCHANGED <<notCrawlVars, now, remoteVars, manifestFile, pc, invoked, path,
                   crawl_timestamp, changed_pages, char_pages, result>>

\* crawl_incremental: for title in changed_pages (a set: any order)
ProcessPageIncremental ==
    /\ pc = "pages" /\ path = "incr"
    /\ \E title \in changed_pages :
        /\ PageStep(title)
        /\ changed_pages' = changed_pages \ {title}
    /\ UNCHANGED <<notCrawlVars, now, remoteVars, manifestFile, pc, invoked, path,
                   crawl_timestamp, all_pages, char_pages, result>>

\* crawl_full: save_manifest(manifest) and return
FinishFull ==
    /\ pc = "pages" /\ path = "full"
    /\ all_pages = <<>>
    /\ manifestFile' = save_manifest(manifest)
    /\ pc' = "returned"
    /\ result' = "saved"
    /\ UNCHANGED <<notCrawlVars, now, remoteVars, wikiDir, invoked, path, manifest,
                   crawl_timestamp, all_pages, changed_pages, char_pages,
                   processed, skipped, failed, hist>>

\* crawl_incremental: manifest["last_crawl"] = crawl_timestamp;
\* save_manifest(manifest) and return
FinishIncremental ==
    /\ pc = "pages" /\ path = "incr"
    /\ changed_pages = {}
    /\ manifest' = AdvanceLastCrawl(manifest, crawl_timestamp)
    /\ manifestFile' = save_manifest(manifest')
    /\ pc' = "returned"
    /\ result' = "saved"
    /\ UNCHANGED <<notCrawlVars, now, remoteVars, wikiDir, invoked, path,
                   crawl_timestamp, all_pages, changed_pages, char_pages,
                   processed, skipped, failed, hist>>

\* the process exits: its locals are gone, the files stay
Exit ==
    /\ pc = "returned"
    /\ pc' = "idle"
    /\ invoked' = "none"
    /\ path' = "none"
    /\ manifest' = DefaultManifest
    /\ crawl_timestamp' = None
    /\ all_pages' = <<>>
    /\ changed_pages' = {}
    /\ char_pages' = {}
    /\ processed' = 0 /\ skipped' = 0 /\ failed' = 0
    /\ result' = "none"
    /\ hist' = NoHistory
    /\ UNCHANGED <<notCrawlVars, now, remoteVars, manifestFile, wikiDir>>

CrawlNext ==
    \/ Tick
    \/ RemoteEdit
    \/ RemoteDelete
    \/ StartFull
    \/ StartIncremental
    \/ ListAllPages
    \/ ListRecentChanges
    \/ Exclusions
    \/ ProcessPageFull
    \/ ProcessPageIncremental
    \/ FinishFull
    \/ FinishIncremental
    \/ Exit

CodecIdle ==
    /\ c_pc = "idle" /\ c_title = <<>> /\ c_k = 0 /\ c_safe = <<>>
    /\ c_filename = <<>> /\ c_work = <<>> /\ c_log = <<>>

RequestIdle ==
    /\ r_pc = "idle" /\ r_max = 0 /\ r_attempt = 0 /\ r_events = <<>>
    /\ r_result = "none"

ListingIdle ==
    /\ l_pc = "idle" /\ l_nsdata = [kind |-> "none", namespaces |-> <<>>] /\ l_namespaces = <<>> /\ l_i = 0
    /\ l_apcontinue = "none" /\ l_pages = <<>> /\ l_log = <<>>

ExportIdle ==
    /\ x_pc = "idle" /\ x_titles = <<>> /\ x_params = <<>> /\ x_events = <<>>
    /\ x_result = [kind |-> "none", text |-> ""]

\* the manifest file as the last completed save_manifest left it
NoFile == [exists |-> FALSE, content |-> DefaultManifest]

NotLoaded == [raised |-> FALSE, value |-> DefaultManifest]

SaveIdle ==
    /\ s_pc = "idle" /\ s_file = [exists |-> FALSE, text |-> <<>>] /\ s_saved = NoFile
    /\ s_manifest = DefaultManifest /\ s_loaded = NotLoaded

LinksIdle == w_pc = "idle" /\ w_in = <<>> /\ w_soup = <<>> /\ w_once = <<>>

NoElement == [present |-> FALSE, nodes |-> <<>>]

PageIdle == b_pc = "idle" /\ b_head = NoElement /\ b_body = NoElement

ImporterIdle ==
    /\ i_pc = "idle" /\ i_modes = {} /\ i_initial = <<>> /\ i_settings = <<>>
    /\ i_events = <<>>

\* the two invocations
Runs == {1, 2}

RaceIdle ==
    /\ k_pc = [r \in Runs |-> "idle"]
    /\ k_file = NoFile
    /\ k_manifest = [r \in Runs |-> DefaultManifest]
    /\ k_ts = [r \in Runs |-> None]
    /\ k_todo = [r \in Runs |-> {}]
    /\ k_wrote = [r \in Runs |-> {}]
    /\ k_events = <<>>

Init == CrawlInit /\ CodecIdle /\ RequestIdle /\ ListingIdle /\ ExportIdle /\ SaveIdle /\ LinksIdle /\ PageIdle /\ ImporterIdle /\ RaceIdle

\* the crawler against its remote wiki
Spec == Init /\ [][CrawlNext]_vars

(***************************************************************************)
(* Properties of the crawl orchestrator.                                   *)
(***************************************************************************)
\* what a later load_manifest reads
Persisted == load_manifest(manifestFile)
\* what load_manifest read, or would have read, when the run started
Prior == load_manifest(hist.preFile)

Returned == pc = "returned"

\* the titles of the run whose fetch was attempted and gave no page
FailedTitles == hist.fetched \ hist.written

\* C1: an incremental crawl on a manifest with last_crawl = T attempts a fetch
\* only for titles the recent-changes listing returned for the window that
\* starts at T, and every prior manifest entry of a title outside that set is
\* identical (same filename, same crawled timestamp) in the persisted manifest.
C1_IncrementalTouchesOnlyChanged ==
    path = "incr" =>
        /\ hist.fetched \subseteq hist.listed
        /\ pc # "get_recent_changes" =>
             /\ hist.since = ToApi(Prior.last_crawl)
             /\ \A t \in hist.listed :
                  lastChange[t] # None /\ lastChange[t] >= ToApi(Prior.last_crawl)
        /\ \A t \in (DOMAIN Prior.pages) \ hist.listed :
             /\ t \in DOMAIN Persisted.pages
             /\ Persisted.pages[t] = Prior.pages[t]
             /\ t \in DOMAIN manifest.pages
             /\ manifest.pages[t] = Prior.pages[t]

\* an incremental run has refetched a changed page and saved, and the prior
\* manifest held an entry of a page that was not reported changed
C1_Witness ==
    /\ Returned /\ path = "incr" /\ result = "saved"
    /\ hist.written # {}
    /\ (DOMAIN Prior.pages) \ hist.listed # {}

\* C2: in any crawl run, full or incremental, a page whose fetch failed on all
\* MAX_RETRIES attempts has no file written for its title, has added exactly one
\* to the failed count, and its prior manifest entry, if there was one, is
\* present and unchanged in the manifest the run persists.
C2_FailedFetchKeepsPriorEntry ==
    /\ \A t \in hist.exhausted : t \notin hist.written /\ t \in FailedTitles
    /\ failed = Cardinality(FailedTitles)
    /\ Returned =>
         \A t \in hist.exhausted \cap DOMAIN Prior.pages :
            /\ t \in DOMAIN Persisted.pages
            /\ Persisted.pages[t] = Prior.pages[t]

\* C3 as stated: every crawl run that returns, whatever the listing returned
\* and however many pages failed, has saved the manifest with last_crawl set to
\* the timestamp taken at its start.
C3_EveryRunFinalizes ==
    Returned =>
        /\ result = "saved"
        /\ manifestFile = save_manifest(manifest)
        /\ Persisted.last_crawl = crawl_timestamp

\* C3 as amended: a run that returns from crawl_full, or from crawl_incremental
\* with a non-empty changed set, has saved the manifest with last_crawl set to the
\* timestamp taken at its start, however many pages failed; an incremental run
\* whose recent-changes listing gave no title returns without saving and leaves
\* the manifest file as it was.
C3_FinalizesUnlessNothingListed ==
    Returned =>
        IF path = "incr" /\ hist.listed = {}
        THEN /\ result = "no_changes"
             /\ manifestFile = hist.preFile
        ELSE /\ result = "saved"
             /\ manifestFile = save_manifest(manifest)
             /\ Persisted.last_crawl = crawl_timestamp

\* an incremental run in which a page failed has saved and advanced last_crawl
C3_Witness ==
    /\ Returned /\ path = "incr" /\ result = "saved"
    /\ failed > 0
    /\ Persisted.last_crawl # Prior.last_crawl

C5_TitlesNeverRemoved ==
    [][ (DOMAIN Persisted.pages) \subseteq DOMAIN load_manifest(manifestFile').pages ]_vars

\* the manifest a full crawl persists, from what it was given: the page listing,
\* the exclusion set, the titles whose fetch gave a page, and its timestamp
FullCrawlResult(written, ts) ==
    [pages |-> [t \in written |-> [filename |-> title_to_filename(t), crawled |-> ts]],
     last_crawl |-> ts, version |-> 1]

\* the steps of a full crawl, as seen when it returns: no recent-changes request,
\* a fetch of every listed page that should_skip_page lets through, a file for
\* every page fetched, and the manifest built from those alone
FullCrawlSteps ==
    /\ path = "full"
    /\ hist.since = None
    /\ hist.fetched = {t \in hist.listed : ~should_skip_page(t, char_pages, OptedIn)}
    /\ skipped = Cardinality(hist.listed \ hist.fetched)
    /\ \A t \in hist.written :
         /\ title_to_filename(t) \in DOMAIN wikiDir
         /\ wikiDir[title_to_filename(t)] = crawl_timestamp
    /\ result = "saved"
    /\ manifestFile = save_manifest(FullCrawlResult(hist.written, crawl_timestamp))

\* C6: when no prior manifest exists (or its last_crawl is null) an incremental
\* crawl performs the steps of a full crawl: the same pages are fetched and
\* written and the persisted manifest is the one a full crawl persists.
C6_IncrementalWithoutManifestIsFull ==
    Returned =>
        /\ invoked = "full" => FullCrawlSteps
        /\ (invoked = "incremental" /\ hist.loaded_last_crawl = None) => FullCrawlSteps

\* an incremental invocation without a manifest has returned with pages archived
C6_Witness ==
    /\ Returned /\ invoked = "incremental"
    /\ ~hist.preFile.exists
    /\ processed > 0 /\ failed > 0

(***************************************************************************)
(* The filename codec, line by line.                                       *)
(***************************************************************************)
\* what the titles given to the codec are made of: ordinary characters, the
\* nine reserved characters, pieces of the escape tokens, the extension and a
\* whole token
Fragments ==
    { <<"a">>, <<"_">>, <<".">>,
      <<"/">>, <<"\\">>, <<":">>, <<"*">>, <<"?">>, <<"\"">>, <<"<">>, <<">">>, <<"|">>,
      <<"/", "\\", ":", "*", "?", "\"", "<", ">", "|">>,
      <<"_", "C", "O", "L", "O", "N">>, <<"C", "O", "L", "O", "N", "_">>,
      <<"_", "L", "T">>, <<"L", "T", "_">>,
      <<"h", "t", "m", "l">>, <<".", "h", "t", "m", "l">>,
      <<"_", "G", "T", "_">> }

RECURSIVE Concat(_)
Concat(frags) == IF frags = <<>> THEN <<>> ELSE Head(frags) \o Concat(Tail(frags))

CodecTitles == {Concat(fs) : fs \in UNION {[1..n -> Fragments] : n \in 0..MaxFrags}}

CodecInit ==
    /\ c_pc = "encode"
    /\ c_title \in CodecTitles
    /\ c_k = 0
    /\ c_safe = c_title
    /\ c_filename = <<>>
    /\ c_work = <<>>
    /\ c_log = <<>>

\* title_to_filename: the next "safe = safe.replace(...)" line
EncodeReplace ==
    /\ c_pc = "encode"
    /\ c_k < Len(EncodeOrder)
    /\ c_safe' = EncodeStep(c_safe, c_k + 1)
    /\ c_k' = c_k + 1
    /\ c_log' = Append(c_log, <<"encode", Subs[EncodeOrder[c_k + 1]].lit[1]>>)
    /\ UNCHANGED <<notCodecVars, c_pc, c_title, c_filename, c_work>>

\* title_to_filename: return safe + ".html"
EncodeReturn ==
    /\ c_pc = "encode"
    /\ c_k = Len(EncodeOrder)
    /\ c_filename' = c_safe \o DotHtml
    /\ c_pc' = "encoded"
    /\ UNCHANGED <<notCodecVars, c_title, c_k, c_safe, c_work, c_log>>

\* filename_to_title: title = filename.replace(".html", "")
DecodeStrip ==
    /\ c_pc = "encoded"
    /\ c_work' = StripHtml(c_filename)
    /\ c_k' = 0
    /\ c_pc' = "decode"
    /\ UNCHANGED <<notCodecVars, c_title, c_safe, c_filename, c_log>>

\* filename_to_title: the next "title = title.replace(...)" line
DecodeReplace ==
    /\ c_pc = "decode"
    /\ c_k < Len(DecodeOrder)
    /\ c_work' = DecodeStep(c_work, c_k + 1)
    /\ c_k' = c_k + 1
    /\ c_log' = Append(c_log, <<"decode", Subs[DecodeOrder[c_k + 1]].lit[1]>>)
    /\ UNCHANGED <<notCodecVars, c_pc, c_title, c_safe, c_filename>>

\* filename_to_title: return title
DecodeReturn ==
    /\ c_pc = "decode"
    /\ c_k = Len(DecodeOrder)
    /\ c_pc' = "decoded"
    /\ UNCHANGED <<notCodecVars, c_title, c_k, c_safe, c_filename, c_work, c_log>>

CodecNext ==
    \/ EncodeReplace
    \/ EncodeReturn
    \/ DecodeStrip
    \/ DecodeReplace
    \/ DecodeReturn

\* filename_to_title(title_to_filename(t)) for the titles t of CodecTitles
InitCodec == CrawlInit /\ RequestIdle /\ ListingIdle /\ ExportIdle /\ SaveIdle /\ LinksIdle /\ PageIdle /\ ImporterIdle /\ RaceIdle /\ CodecInit

SpecCodec == InitCodec /\ [][CodecNext]_vars

(***************************************************************************)
(* Properties of the filename codec.                                       *)
(***************************************************************************)
\* s[i..] starts with sub, for some i
Contains(s, sub) ==
    \E i \in 1..Len(s) : i + Len(sub) - 1 <= Len(s) /\ SubSeq(s, i, i + Len(sub) - 1) = sub

EndsWith(s, suffix) ==
    Len(s) >= Len(suffix) /\ SubSeq(s, Len(s) - Len(suffix) + 1, Len(s)) = suffix

\* no escape token appears literally in the title
NoTokenIn(title) == \A i \in DOMAIN Subs : ~Contains(title, Subs[i].tok)

\* C7: for every title made of ordinary characters and any combination of the
\* nine reserved characters, in which no escape token appears literally,
\* filename_to_title(title_to_filename(t)) = t.
C7_RoundTrip ==
    (c_pc = "decoded" /\ NoTokenIn(c_title)) => c_work = c_title

\* C8: title_to_filename(t) always ends with ".html", and filename_to_title
\* strips exactly that one trailing ".html" (no other occurrence of ".html" in
\* the name is removed) before it reverses the substitutions, for every title,
\* also one that contains ".html".
C8_StripsExactlyTheSuffix ==
    /\ c_pc \in {"encoded", "decode", "decoded"} => EndsWith(c_filename, DotHtml)
    /\ (c_pc = "decode" /\ c_k = 0) =>
          c_work = SubSeq(c_filename, 1, Len(c_filename) - Len(DotHtml))

ReservedInSourceOrder == <<"/", "\\", ":", "*", "?", "\"", "<", ">", "|">>

EncodeLog == SelectSeq(c_log, LAMBDA e : e[1] = "encode")
DecodeLog == SelectSeq(c_log, LAMBDA e : e[1] = "decode")

Reverse(seq) == [i \in 1..Len(seq) |-> seq[Len(seq) + 1 - i]]

\* the characters of a log, without the direction
Chars(log) == [i \in 1..Len(log) |-> log[i][2]]

\* C9 as stated: encoding substitutes / \ : * ? " < > | in that order and decoding
\* applies the inverse substitutions in the exact reverse of that order.
C9_DecodesInReverseOrder ==
    c_pc = "decoded" =>
        /\ Chars(EncodeLog) = ReservedInSourceOrder
        /\ Chars(DecodeLog) = Reverse(Chars(EncodeLog))

\* a title in which a decoded token completes a later token of the list
TitleColonLt == <<"_", "C", "O", "L", "O", "N", "<">>

\* C9 as amended: encoding substitutes / \ : * ? " < > | in that order and
\* decoding applies the inverse substitutions in the same order, after the
\* extension is removed; so "_COLON_LT_.html", the filename of "_COLON<", decodes
\* to ":LT_" (the token of ":" is restored before the token of "<").
C9_DecodesInEncodeOrder ==
    /\ c_pc = "decoded" =>
        /\ Chars(EncodeLog) = ReservedInSourceOrder
        /\ Chars(DecodeLog) = Chars(EncodeLog)
        /\ c_log = EncodeLog \o DecodeLog
    /\ (c_pc = "decoded" /\ c_title = TitleColonLt) => c_work = <<":", "L", "T", "_">>

\* a title with two reserved characters has been encoded and decoded
C9_Witness ==
    /\ c_pc = "decoded"
    /\ c_title = <<":", "<">>
    /\ c_filename = <<"_","C","O","L","O","N","_", "_","L","T","_", ".","h","t","m","l">>
    /\ c_work = c_title

(***************************************************************************)
(* WikiAPI.request (and its copy api_request of scripts/crawl.py).         *)
(***************************************************************************)
\* what one pass through the "try" block can end in: a 2xx response whose body
\* parses ("ok"), or an exception: requests.Timeout, requests.ConnectionError,
\* the requests.HTTPError of raise_for_status, or the
\* requests.exceptions.JSONDecodeError of response.json()
RequestExceptions == {"timeout", "connection", "http_error", "bad_json"}
GetOutcomes == {"ok"} \cup RequestExceptions

\* a bug Caught could have: the handler names requests.HTTPError only
Caught_http_only(outcome) == outcome = "http_error"

\* "except requests.RequestException": every exception above is one
Caught(outcome) == outcome \in RequestExceptions

NoResult == [kind |-> "none", attempt |-> 0]

RequestInit ==
    /\ r_pc = "loop"
    /\ r_max \in 0..MaxRetriesArg
    /\ r_attempt = 0
    /\ r_events = <<>>
    /\ r_result = NoResult

\* for attempt in range(self.max_retries): time.sleep(self.delay)
RequestSleep ==
    /\ r_pc = "loop"
    /\ r_attempt < r_max
    /\ r_events' = Append(r_events, <<"sleep", "delay">>)
    /\ r_pc' = "get"
    /\ UNCHANGED <<notRequestVars, r_max, r_attempt, r_result>>

\* session.get, raise_for_status and "return response.json()"
RequestGet ==
    /\ r_pc = "get"
    /\ \E outcome \in GetOutcomes :
        /\ r_events' = Append(r_events, <<"get", outcome>>)
        /\ IF outcome = "ok"
           THEN /\ r_result' = [kind |-> "json", attempt |-> r_attempt]
                /\ r_pc' = "returned"
           ELSE /\ r_result' = r_result
                /\ r_pc' = IF Caught(outcome) THEN "except" ELSE "raised"
    /\ UNCHANGED <<notRequestVars, r_max, r_attempt>>

\* a bug BacksOff could have: the backoff sleep is taken after every failure
BacksOff_always(attempt, max_retries) == TRUE

\* "if attempt < self.max_retries - 1": a failure is followed by a backoff
BacksOff(attempt, max_retries) == attempt < max_retries - 1

\* the handler: the warning, the backoff sleep unless this was the last
\* attempt, and the next iteration
RequestExcept ==
    /\ r_pc = "except"
    /\ r_events' = IF BacksOff(r_attempt, r_max)
                   THEN Append(r_events, <<"sleep", "retry">>)
                   ELSE r_events
    /\ r_attempt' = r_attempt + 1
    /\ r_pc' = "loop"
    /\ UNCHANGED <<notRequestVars, r_max, r_result>>

\* the loop is exhausted: the error is logged and None returned
RequestFail ==
    /\ r_pc = "loop"
    /\ r_attempt >= r_max
    /\ r_result' = [kind |-> "None", attempt |-> r_attempt]
    /\ r_pc' = "returned"
    /\ UNCHANGED <<notRequestVars, r_max, r_attempt, r_events>>

RequestNext ==
    \/ RequestSleep
    \/ RequestGet
    \/ RequestExcept
    \/ RequestFail

\* one call of WikiAPI.request
InitRequest == CrawlInit /\ CodecIdle /\ ListingIdle /\ ExportIdle /\ SaveIdle /\ LinksIdle /\ PageIdle /\ ImporterIdle /\ RaceIdle /\ RequestInit

SpecRequest == InitRequest /\ [][RequestNext]_vars

(***************************************************************************)
(* Properties of WikiAPI.request.                                          *)
(***************************************************************************)
Gets == SelectSeq(r_events, LAMBDA e : e[1] = "get")

\* C10: request makes at most max_retries GET attempts; it returns the parsed
\* JSON of the first attempt that succeeds and makes no attempt after it; when
\* all max_retries attempts end in a transport failure it returns None; no
\* exception reaches the caller.
C10_RequestReturnsFirstSuccessOrNone ==
    /\ Len(Gets) <= r_max
    /\ r_pc # "raised"
    /\ \A i \in DOMAIN r_events :
         r_events[i] = <<"get", "ok">> => i = Len(r_events) /\ r_pc = "returned"
    /\ r_pc = "returned" =>
         IF \E i \in DOMAIN Gets : Gets[i][2] = "ok"
         THEN /\ r_result.kind = "json"
              /\ Gets[r_result.attempt + 1][2] = "ok"
              /\ \A i \in 1..r_result.attempt : Gets[i][2] \in RequestExceptions
              /\ Len(Gets) = r_result.attempt + 1
         ELSE /\ r_result.kind = "None"
              /\ Len(Gets) = r_max

\* request has returned the JSON of its last allowed attempt after failures
C10_Witness ==
    /\ r_pc = "returned"
    /\ r_max = MaxRetriesArg
    /\ r_result = [kind |-> "json", attempt |-> r_max - 1]
    /\ Len(Gets) = r_max

\* positions of the GET attempts in the event sequence
GetAt == {i \in DOMAIN r_events : r_events[i][1] = "get"}

\* C11: every GET attempt is immediately preceded by a sleep of the politeness
\* delay; two consecutive attempts of one request are separated by the one
\* backoff sleep that follows the failed attempt (and the politeness sleep of
\* the next); no backoff sleep follows the final failed attempt, so a request
\* that has returned ends its event sequence with a GET.
C11_SleepsAroundAttempts ==
    /\ \A i \in GetAt : i > 1 /\ r_events[i - 1] = <<"sleep", "delay">>
    /\ \A i, j \in GetAt :
         (i < j /\ \A k \in GetAt : ~(i < k /\ k < j)) =>
             /\ j = i + 3
             /\ r_events[i + 1] = <<"sleep", "retry">>
    /\ \A i \in DOMAIN r_events :
         r_events[i] = <<"sleep", "retry">> =>
             /\ i > 1 /\ r_events[i - 1][1] = "get"
             /\ Cardinality({k \in GetAt : k < i}) < r_max
    /\ (r_pc = "returned" /\ r_events # <<>>) =>
         r_events[Len(r_events)][1] = "get"

\* a request has given up after MaxRetriesArg failed attempts, with a backoff
\* between them
C11_Witness ==
    /\ r_pc = "returned"
    /\ r_result.kind = "None"
    /\ r_max = MaxRetriesArg
    /\ Len(Gets) = r_max
    /\ \E i \in DOMAIN r_events : r_events[i] = <<"sleep", "retry">>

(***************************************************************************)
(* WikiAPI.get_namespaces and WikiAPI.get_all_pages (lib/wiki_api.py).     *)
(* What request returned is a record: of kind "None" when request gave up, *)
(* "empty" for the dict {} and "dict" for any other JSON body, with the    *)
(* parts of the body that the code reads.                                  *)
(***************************************************************************)
Digits == <<"0", "1", "2", "3", "4", "5", "6", "7", "8", "9">>
IsDigit(c) == \E d \in DOMAIN Digits : Digits[d] = c
DigitValue(c) == (CHOOSE d \in DOMAIN Digits : Digits[d] = c) - 1

RECURSIVE DecimalValue(_)
DecimalValue(s) == IF s = <<>> THEN 0 ELSE 10 * DecimalValue(SubSeq(s, 1, Len(s) - 1)) + DigitValue(s[Len(s)])

\* int(ns_id_str) succeeds: an optional sign and at least one digit
IsIntLiteral(s) ==
    LET body == IF s # <<>> /\ s[1] \in {"-", "+"} THEN Tail(s) ELSE s
    IN  body # <<>> /\ \A i \in DOMAIN body : IsDigit(body[i])

\* int(ns_id_str)
IntOf(s) == IF s[1] = "-" THEN 0 - DecimalValue(Tail(s)) ELSE IF s[1] = "+" THEN DecimalValue(Tail(s)) ELSE DecimalValue(s)

\* a bug KeepsNamespace could have: the sign of the ID is not looked at
KeepsNamespace_any(ns_id) == TRUE

\* "if ns_id >= 0"
KeepsNamespace(ns_id) == ns_id >= 0

\* the loop over the keys of data["query"]["namespaces"]: the list "namespaces"
RECURSIVE NamespaceLoop(_)
NamespaceLoop(keys) ==
    IF keys = <<>> THEN <<>>
    ELSE LET rest == NamespaceLoop(Tail(keys))
             k == Head(keys)
         IN  IF IsIntLiteral(k) /\ KeepsNamespace(IntOf(k)) THEN <<IntOf(k)>> \o rest ELSE rest

\* sorted(set(namespaces))
RECURSIVE SortedOf(_)
SortedOf(S) == IF S = {} THEN <<>> ELSE LET m == CHOOSE x \in S : \A y \in S : x <= y IN <<m>> \o SortedOf(S \ {m})

SortedSet(list) == SortedOf({list[i] : i \in DOMAIN list})

\* a bug DefaultNamespaces could have: no namespace at all on failure
DefaultNamespaces_nothing == <<>>

\* "return [0]"
DefaultNamespaces == <<0>>

\* "if not data": request returned None, or a body that is the empty dict
Falsy(data) == data.kind \in {"None", "empty"}

get_namespaces(data) == IF Falsy(data) THEN DefaultNamespaces ELSE SortedSet(NamespaceLoop(data.namespaces))

\* keys a siteinfo response may carry
NsKeys == {<<"0">>, <<"1">>, <<"2">>, <<"0", "1">>, <<"+", "2">>, <<"-", "1">>, <<"-", "2">>, <<"x">>}
\* a JSON object has at most MaxNsKeys keys here
MaxNsKeys == 3

RECURSIVE DistinctSeqs(_, _)
DistinctSeqs(S, n) ==
    IF n = 0 THEN {<<>>}
    ELSE LET shorter == DistinctSeqs(S, n - 1)
         IN  shorter \cup UNION {{Append(q, x) : x \in S \ {q[i] : i \in DOMAIN q}} : q \in {r \in shorter : Len(r) = n - 1}}

NsData == {[kind |-> k, namespaces |-> <<>>] : k \in {"None", "empty"}} \cup {[kind |-> "dict", namespaces |-> ks] : ks \in DistinctSeqs(NsKeys, MaxNsKeys)}

NamespacesInit ==
    /\ l_pc = "get_namespaces"
    /\ l_nsdata \in NsData
    /\ l_namespaces = <<>> /\ l_i = 0 /\ l_apcontinue = "none"
    /\ l_pages = <<>> /\ l_log = <<>>

NamespacesReturn ==
    /\ l_pc = "get_namespaces"
    /\ l_namespaces' = get_namespaces(l_nsdata)
    /\ l_pc' = "ns_returned"
    /\ UNCHANGED <<notListingVars, l_nsdata, l_i, l_apcontinue, l_pages, l_log>>

NamespacesNext == NamespacesReturn

InitNamespaces == CrawlInit /\ CodecIdle /\ RequestIdle /\ ExportIdle /\ SaveIdle /\ LinksIdle /\ PageIdle /\ ImporterIdle /\ RaceIdle /\ NamespacesInit

\* one call of WikiAPI.get_namespaces
SpecNamespaces == InitNamespaces /\ [][NamespacesNext]_vars

\* the non-negative IDs among the keys of the response
ResponseIds == {IntOf(l_nsdata.namespaces[i]) : i \in {j \in DOMAIN l_nsdata.namespaces : IsIntLiteral(l_nsdata.namespaces[j])}}

\* C13: for every namespace response get_namespaces returns a list with no
\* negative ID, in strictly ascending order (so no ID twice), whose elements are
\* exactly the non-negative IDs of the response.
C13_NamespacesSortedUniqueNonNegative ==
    (l_pc = "ns_returned" /\ ~Falsy(l_nsdata)) =>
        /\ \A i \in DOMAIN l_namespaces : l_namespaces[i] >= 0
        /\ \A i, j \in DOMAIN l_namespaces : i < j => l_namespaces[i] < l_namespaces[j]
        /\ {l_namespaces[i] : i \in DOMAIN l_namespaces} = {n \in ResponseIds : n >= 0}

\* a response with a negative ID, a key that is no integer and two spellings of
\* one ID, given out of order, has been reduced to two IDs
C13_Witness ==
    /\ l_pc = "ns_returned"
    /\ ~Falsy(l_nsdata)
    /\ \E i \in DOMAIN l_nsdata.namespaces : l_nsdata.namespaces[i] = <<"-", "1">>
    /\ \E i, j \in DOMAIN l_nsdata.namespaces : l_nsdata.namespaces[i] = <<"2">> /\ l_nsdata.namespaces[j] = <<"+", "2">>
    /\ l_namespaces = <<2>>

(***************************************************************************)
(* WikiAPI.get_all_pages(namespaces=None), one list request per step.      *)
(***************************************************************************)
\* list requests in one behaviour
MaxListRequests == 3

\* the "allpages" arrays a list response may carry
ListBatches == {<<>>, <<"p">>, <<"q", "p">>}

\* the "continue" object of a list response: absent, carrying an apcontinue
\* token, or present without the key "apcontinue"
ListContinues == {"none", "t1", "t2", "no_apcontinue"}

NoneResponse == [kind |-> "None", batch |-> <<>>, cont |-> "none"]

ListResponses ==
    {NoneResponse, [kind |-> "empty", batch |-> <<>>, cont |-> "none"]}
    \cup {[kind |-> "dict", batch |-> b, cont |-> c] : b \in ListBatches, c \in ListContinues}

\* the siteinfo responses the listing is run with
ListingNsData ==
    {[kind |-> "None", namespaces |-> <<>>],
     [kind |-> "dict", namespaces |-> <<<<"1">>, <<"0">>>>],
     [kind |-> "dict", namespaces |-> <<<<"-", "1">>, <<"2">>>>]}

\* a bug Extend could have: the new batch is put in front
Extend_prepends(pages, batch) == batch \o pages

\* pages.extend(batch)
Extend(pages, batch) == pages \o batch

\* a bug PagesAfterFailure could have: the list is reset when a request fails
PagesAfterFailure_reset(pages) == <<>>

\* "if not data: break" leaves the list "pages" as it is
PagesAfterFailure(pages) == pages

\* a bug FirstToken could have: params is built once, before the "for", and
\* keeps the token of the namespace before
FirstToken_left_over(apcontinue) == apcontinue

\* "params = {...}" inside the "for": the dict has no key "apcontinue"
FirstToken(apcontinue) == "none"

ListingInit ==
    /\ l_pc = "start"
    /\ l_nsdata = [kind |-> "none", namespaces |-> <<>>]
    /\ l_namespaces = <<>> /\ l_i = 0 /\ l_apcontinue = "none"
    /\ l_pages = <<>> /\ l_log = <<>>

\* "if namespaces is None: namespaces = self.get_namespaces()" and pages = []
ListGetNamespaces ==
    /\ l_pc = "start"
    /\ \E data \in ListingNsData :
        /\ l_nsdata' = data
        /\ l_namespaces' = get_namespaces(data)
    /\ l_i' = 1
    /\ l_pages' = <<>>
    /\ l_pc' = "for"
    /\ UNCHANGED <<notListingVars, l_apcontinue, l_log>>

\* "for ns in namespaces": a fresh params dict, without apcontinue
ListFor ==
    /\ l_pc = "for"
    /\ l_i <= Len(l_namespaces)
    /\ l_apcontinue' = FirstToken(l_apcontinue)
    /\ l_pc' = "while"
    /\ UNCHANGED <<notListingVars, l_nsdata, l_namespaces, l_i, l_pages, l_log>>

\* one iteration of "while True": the request and what is done with its data
ListRequest ==
    /\ l_pc = "while"
    /\ Len(l_log) < MaxListRequests
    /\ \E data \in ListResponses :
        /\ l_log' = Append(l_log, [idx |-> l_i, ns |-> l_namespaces[l_i], apcontinue |-> l_apcontinue, data |-> data])
        /\ IF Falsy(data)
           THEN /\ l_pages' = PagesAfterFailure(l_pages)
                /\ l_i' = l_i + 1
                /\ l_pc' = "for"
                /\ UNCHANGED l_apcontinue
           ELSE /\ l_pages' = Extend(l_pages, data.batch)
                /\ IF data.cont = "none"
                   THEN l_i' = l_i + 1 /\ l_pc' = "for" /\ UNCHANGED l_apcontinue
                   ELSE IF data.cont = "no_apcontinue"
                   THEN l_pc' = "raised" /\ UNCHANGED <<l_i, l_apcontinue>>
                   ELSE l_apcontinue' = data.cont /\ l_pc' = "while" /\ UNCHANGED l_i
    /\ UNCHANGED <<notListingVars, l_nsdata, l_namespaces>>

\* the for loop is exhausted: "return pages"
ListReturn ==
    /\ l_pc = "for"
    /\ l_i > Len(l_namespaces)
    /\ l_pc' = "returned"
    /\ UNCHANGED <<notListingVars, l_nsdata, l_namespaces, l_i, l_apcontinue, l_pages, l_log>>

ListingNext ==
    \/ ListGetNamespaces
    \/ ListFor
    \/ ListRequest
    \/ ListReturn

InitListing == CrawlInit /\ CodecIdle /\ RequestIdle /\ ExportIdle /\ SaveIdle /\ LinksIdle /\ PageIdle /\ ImporterIdle /\ RaceIdle /\ ListingInit

\* one call of WikiAPI.get_all_pages()
SpecListing == InitListing /\ [][ListingNext]_vars

(***************************************************************************)
(* Properties of the page listing.                                         *)
(***************************************************************************)
\* the requests made for the namespace at position i, in order
RequestsFor(i) == SelectSeq(l_log, LAMBDA e : e.idx = i)

RECURSIVE BatchesOf(_)
BatchesOf(log) == IF log = <<>> THEN <<>> ELSE BatchesOf(SubSeq(log, 1, Len(log) - 1)) \o log[Len(log)].data.batch

\* C12: when the listing has returned and every response of a namespace was
\* delivered, the responses r1..rn of that namespace are such that r1..r(n-1)
\* carry a continuation token and rn carries none (n requests: none is made
\* after rn and one is made after every token), each request sends the token
\* of the response before it, and the batches of the namespace appear in the
\* result in request order, none dropped, duplicated or reordered.
C12_ListingConcatenatesBatches ==
    l_pc = "returned" =>
        \A i \in DOMAIN l_namespaces :
            LET R == RequestsFor(i)
            IN  (\A k \in DOMAIN R : R[k].data.kind # "None") =>
                    /\ Len(R) >= 1
                    /\ \A k \in 1..(Len(R) - 1) : R[k].data.cont \in {"t1", "t2"} /\ R[k + 1].apcontinue = R[k].data.cont
                    /\ R[1].apcontinue = "none"
                    /\ R[Len(R)].data.cont = "none"
                    /\ \E a, b \in 0..Len(l_pages) :
                         /\ a <= b
                         /\ SubSeq(l_pages, a + 1, b) = BatchesOf(R)
                         /\ a = Len(BatchesOf(SelectSeq(l_log, LAMBDA e : e.idx < i)))
                         /\ Len(l_pages) - b = Len(BatchesOf(SelectSeq(l_log, LAMBDA e : e.idx > i)))

\* a namespace was listed in three requests whose batches differ
C12_Witness ==
    /\ l_pc = "returned"
    /\ Len(l_namespaces) = 1
    /\ Len(l_log) = 3
    /\ \A k \in 1..3 : l_log[k].data.kind = "dict"
    /\ l_pages = <<"p", "q", "p">>
    /\ l_log[1].data.cont = "t1" /\ l_log[2].data.cont = "t2"

\* C28: in a paginated listing, every request after the first of a namespace
\* carries exactly the token of the response just before it, which carried
\* one, and the first request of each namespace carries no token, whatever
\* the namespace before it ended with.
C28_RequestsCarryPrecedingToken ==
    \A k \in DOMAIN l_log :
        IF k > 1 /\ l_log[k - 1].idx = l_log[k].idx
        THEN /\ l_log[k - 1].data.kind = "dict"
             /\ l_log[k - 1].data.cont \in {"t1", "t2"}
             /\ l_log[k].apcontinue = l_log[k - 1].data.cont
        ELSE l_log[k].apcontinue = "none"

\* the first namespace was listed in two requests, the second of them failed
\* while it carried a token, and the second namespace was then asked for
C28_Witness ==
    /\ Len(l_namespaces) = 2
    /\ Len(l_log) = 3
    /\ l_log[1].idx = 1 /\ l_log[1].data.cont = "t2"
    /\ l_log[2].idx = 1 /\ l_log[2].apcontinue = "t2" /\ l_log[2].data.kind = "None"
    /\ l_log[3].idx = 2 /\ l_log[3].apcontinue = "none"

\* C14: when the namespace request failed on all attempts get_namespaces has
\* returned [0]; get_all_pages then sends its list requests for namespace 0
\* only and returns, having listed the main namespace.
C14_NamespaceFailureDefaultsToMain ==
    (l_pc # "start" /\ l_nsdata.kind = "None") =>
        /\ l_namespaces = <<0>>
        /\ \A k \in DOMAIN l_log : l_log[k].ns = 0
        /\ l_pc = "returned" => (l_log # <<>> /\ l_pages = BatchesOf(l_log))

\* after a failed namespace request two batches of namespace 0 were listed
C14_Witness ==
    /\ l_pc = "returned"
    /\ l_nsdata.kind = "None"
    /\ Len(l_log) = 2
    /\ l_pages = <<"q", "p", "p">>

\* C15: a page-list request that exhausted its retries raises nothing; the
\* pages collected before it are kept and nothing else is added for that
\* namespace (the result is the batches of the delivered responses, in
\* order); the next request, if there is one, is the first request of the
\* next namespace, and a listing that returned has asked for every namespace.
C15_ListFailureKeepsAccumulated ==
    /\ l_pages = BatchesOf(l_log)
    /\ \A k \in DOMAIN l_log :
         l_log[k].data.kind = "None" =>
             /\ k = Len(l_log) => l_pc \in {"for", "while", "returned"}
             /\ k < Len(l_log) => (l_log[k + 1].idx = l_log[k].idx + 1 /\ l_log[k + 1].apcontinue = "none")
    /\ l_pc = "returned" => \A i \in DOMAIN l_namespaces : RequestsFor(i) # <<>>

\* the second request of the first namespace failed after a batch had been
\* collected, and the second namespace was listed after it
C15_Witness ==
    /\ l_pc = "returned"
    /\ Len(l_namespaces) = 2
    /\ Len(l_log) = 3
    /\ l_log[1].data.kind = "dict" /\ l_log[1].data.batch = <<"q", "p">>
    /\ l_log[2] = [idx |-> 1, ns |-> 0, apcontinue |-> "t1", data |-> NoneResponse]
    /\ l_log[3].idx = 2 /\ l_log[3].data.batch = <<"p">>
    /\ l_pages = <<"q", "p", "p">>

(***************************************************************************)
(* WikiAPI.export_pages (lib/wiki_api.py).                                 *)
(***************************************************************************)
\* export_pages is called with at most MaxExportTitles titles
MaxExportTitles == 3

RECURSIVE SeqsUpTo(_, _)
SeqsUpTo(S, n) == IF n = 0 THEN {<<>>} ELSE LET shorter == SeqsUpTo(S, n - 1) IN shorter \cup {Append(q, x) : q \in shorter, x \in S}

\* "|".join(titles)
RECURSIVE JoinPipe(_)
JoinPipe(titles) ==
    IF titles = <<>> THEN <<>>
    ELSE IF Len(titles) = 1 THEN titles[1]
    ELSE titles[1] \o <<"|">> \o JoinPipe(Tail(titles))

\* response.text of a 2xx response
ExportTexts == {"", "<mediawiki/>"}

\* what the "try" block of export_pages can end in: a 2xx response, or
\* requests.Timeout, requests.ConnectionError, requests.HTTPError
ExportOutcomes == {"ok", "timeout", "connection", "http_error"}

\* a bug ExportCaught could have: no handler around the GET, as in the
\* importer's own export_pages (server/import-content.py:146-150)
ExportCaught_nothing(outcome) == FALSE

\* "except requests.RequestException"
ExportCaught(outcome) == outcome \in RequestExceptions

ExportInit ==
    /\ x_pc = "start"
    /\ x_titles \in SeqsUpTo(Titles, MaxExportTitles)
    /\ x_params = <<>>
    /\ x_events = <<>>
    /\ x_result = [kind |-> "none", text |-> ""]

\* the params dict
ExportParams ==
    /\ x_pc = "start"
    /\ x_params' = JoinPipe(x_titles)
    /\ x_pc' = "sleep"
    /\ UNCHANGED <<notExportVars, x_titles, x_events, x_result>>

\* time.sleep(self.delay)
ExportSleep ==
    /\ x_pc = "sleep"
    /\ x_events' = Append(x_events, <<"sleep", "delay", "">>)
    /\ x_pc' = "get"
    /\ UNCHANGED <<notExportVars, x_titles, x_params, x_result>>

\* session.get, raise_for_status, "return response.text", and the handler
ExportGet ==
    /\ x_pc = "get"
    /\ \E outcome \in ExportOutcomes, text \in ExportTexts :
        /\ outcome # "ok" => text = ""
        /\ x_events' = Append(x_events, <<"get", outcome, text>>)
        /\ IF outcome = "ok"
           THEN x_result' = [kind |-> "text", text |-> text] /\ x_pc' = "returned"
           ELSE IF ExportCaught(outcome)
           THEN x_result' = [kind |-> "None", text |-> ""] /\ x_pc' = "returned"
           ELSE x_pc' = "raised" /\ UNCHANGED x_result
    /\ UNCHANGED <<notExportVars, x_titles, x_params>>

ExportNext ==
    \/ ExportParams
    \/ ExportSleep
    \/ ExportGet

InitExport == CrawlInit /\ CodecIdle /\ RequestIdle /\ ListingIdle /\ SaveIdle /\ LinksIdle /\ PageIdle /\ ImporterIdle /\ RaceIdle /\ ExportInit

\* one call of WikiAPI.export_pages
SpecExport == InitExport /\ [][ExportNext]_vars

\* C16: export_pages never raises; a call that has returned has slept the
\* politeness delay once and issued one GET after it, nothing else (no
\* backoff, no second attempt, no follow-up request), and has returned the
\* text of the response when the GET succeeded and None when it failed.
C16_ExportIsOneGet ==
    /\ x_pc # "raised"
    /\ Cardinality({i \in DOMAIN x_events : x_events[i][1] = "get"}) <= 1
    /\ x_pc = "returned" =>
         /\ Len(x_events) = 2
         /\ x_events[1] = <<"sleep", "delay", "">>
         /\ x_events[2][1] = "get"
         /\ IF x_events[2][2] = "ok"
            THEN x_result = [kind |-> "text", text |-> x_events[2][3]]
            ELSE x_result = [kind |-> "None", text |-> ""]

\* an export of three titles has returned None after its GET timed out
C16_Witness ==
    /\ x_pc = "returned"
    /\ Len(x_titles) = 3
    /\ x_events[2] = <<"get", "timeout", "">>
    /\ x_result.kind = "None"

(***************************************************************************)
(* The manifest file under an interrupted run: save_manifest, one write    *)
(* at a time, and the load_manifest of the next invocation.  The text of   *)
(* the file is a sequence of JSON fragments.                               *)
(***************************************************************************)
Tok(k, title, filename, val) == [k |-> k, title |-> title, filename |-> filename, val |-> val]

\* json.dump(manifest, f, indent=2): the fragments written, in order
json_dump(m) ==
    LET present == SelectSeq(ListingOrder, LAMBDA t : t \in DOMAIN m.pages)
    IN  <<Tok("{", <<>>, <<>>, 0)>>
        \o [i \in 1..Len(present) |-> Tok("page", present[i], m.pages[present[i]].filename, m.pages[present[i]].crawled)]
        \o <<Tok("last_crawl", <<>>, <<>>, m.last_crawl), Tok("version", <<>>, <<>>, m.version), Tok("}", <<>>, <<>>, 0)>>

\* the text is one complete JSON object
IsJsonDocument(text) ==
    /\ Len(text) >= 4
    /\ text[1].k = "{"
    /\ \A i \in 2..(Len(text) - 3) : text[i].k = "page"
    /\ text[Len(text) - 2].k = "last_crawl"
    /\ text[Len(text) - 1].k = "version"
    /\ text[Len(text)].k = "}"

\* json.load(f): the dict, or json.JSONDecodeError raised
json_load(text) ==
    IF IsJsonDocument(text)
    THEN [raised |-> FALSE,
          value |-> [pages |-> [t \in {text[i].title : i \in 2..(Len(text) - 3)} |->
                                  LET i == CHOOSE j \in 2..(Len(text) - 3) : text[j].title = t
                                  IN  [filename |-> text[i].filename, crawled |-> text[i].val]],
                     last_crawl |-> text[Len(text) - 2].val,
                     version |-> text[Len(text) - 1].val]]
    ELSE [raised |-> TRUE, value |-> DefaultManifest]

\* load_manifest on the file as it is on disk
LoadFromDisk(file) ==
    LET parsed == json_load(file.text)
    IN  IF file.exists /\ parsed.raised
        THEN [raised |-> TRUE, value |-> DefaultManifest]
        ELSE [raised |-> FALSE, value |-> load_manifest([exists |-> file.exists, content |-> parsed.value])]

\* timestamps in the manifests of this machine
SaveTimestamps == {0, 1}

SavePageMaps ==
    UNION {[S -> SaveTimestamps] : S \in SUBSET {TitleA, TitleD}}

SaveManifests ==
    {[pages |-> [t \in DOMAIN c |-> [filename |-> title_to_filename(t), crawled |-> c[t]]], last_crawl |-> lc, version |-> 1] :
        c \in SavePageMaps, lc \in SaveTimestamps}

OnDisk(saved) == [exists |-> saved.exists, text |-> IF saved.exists THEN json_dump(saved.content) ELSE <<>>]

SaveInit ==
    /\ s_pc = "run"
    /\ s_saved \in {NoFile} \cup {save_manifest(m) : m \in SaveManifests}
    /\ s_file = OnDisk(s_saved)
    /\ s_manifest = DefaultManifest
    /\ s_loaded = NotLoaded

\* the run up to its call of save_manifest: the manifest dict is built in memory
SaveRun ==
    /\ s_pc = "run"
    /\ s_manifest' \in SaveManifests
    /\ s_pc' = "save"
    /\ UNCHANGED <<notSaveVars, s_file, s_saved, s_loaded>>

\* DATA_DIR.mkdir and open(MANIFEST_PATH, "w"): the file exists and is empty
SaveOpen ==
    /\ s_pc = "save"
    /\ s_file' = [exists |-> TRUE, text |-> <<>>]
    /\ s_pc' = "write"
    /\ UNCHANGED <<notSaveVars, s_saved, s_manifest, s_loaded>>

\* json.dump: the next fragment reaches the file
SaveWrite ==
    /\ s_pc = "write"
    /\ Len(s_file.text) < Len(json_dump(s_manifest))
    /\ s_file' = [s_file EXCEPT !.text = Append(@, json_dump(s_manifest)[Len(@) + 1])]
    /\ UNCHANGED <<notSaveVars, s_pc, s_saved, s_manifest, s_loaded>>

\* the with block ends after the last fragment: save_manifest has completed
SaveClose ==
    /\ s_pc = "write"
    /\ Len(s_file.text) = Len(json_dump(s_manifest))
    /\ s_saved' = save_manifest(s_manifest)
    /\ s_pc' = "exited"
    /\ UNCHANGED <<notSaveVars, s_file, s_manifest, s_loaded>>

\* the process is stopped from outside (SIGINT, SIGKILL, power loss)
SaveInterrupt ==
    /\ s_pc \in {"run", "save", "write"}
    /\ s_pc' = "interrupted"
    /\ UNCHANGED <<notSaveVars, s_file, s_saved, s_manifest, s_loaded>>

\* the next invocation calls load_manifest
SaveLoadAfter ==
    /\ s_pc \in {"exited", "interrupted"}
    /\ s_loaded' = LoadFromDisk(s_file)
    /\ s_pc' = "loaded"
    /\ UNCHANGED <<notSaveVars, s_file, s_saved, s_manifest>>

SaveNext ==
    \/ SaveRun
    \/ SaveOpen
    \/ SaveWrite
    \/ SaveClose
    \/ SaveInterrupt
    \/ SaveLoadAfter

InitSave == CrawlInit /\ CodecIdle /\ RequestIdle /\ ListingIdle /\ ExportIdle /\ LinksIdle /\ PageIdle /\ ImporterIdle /\ RaceIdle /\ SaveInit

\* one crawl run that may be interrupted, and the load of the next one
SpecSave == InitSave /\ [][SaveNext]_vars

\* C17: load_manifest never fails: it returns the default structure when no
\* manifest file exists and otherwise a well-formed manifest, whatever state
\* an earlier, possibly interrupted, run left the file in.
C17_LoadNeverFails ==
    s_pc = "loaded" =>
        /\ ~s_loaded.raised
        /\ ~s_file.exists => s_loaded.value = DefaultManifest
        /\ s_file.exists => s_loaded.value \in SaveManifests

\* C18: after an interruption the persisted manifest is the one written by the
\* last completed save_manifest (the pre-run manifest when the run had not
\* completed its save), and that is what a later load_manifest returns.
C18_InterruptedRunKeepsLastSave ==
    s_pc \in {"interrupted", "loaded"} =>
        /\ s_file = OnDisk(s_saved)
        /\ s_pc = "loaded" => s_loaded = [raised |-> FALSE, value |-> load_manifest(s_saved)]

(***************************************************************************)
(* rewrite_internal_links (scripts/crawl.py).  The soup is the sequence of *)
(* its <a> elements; hrefs are character sequences.                        *)
(***************************************************************************)
\* BASE_URL, shortened: an https origin without a trailing slash
BaseUrl == <<"h", "t", "t", "p", "s", ":", "/", "/", "w">>

Slash == <<"/">>

\* "/wiki/"
WikiDirPrefix == <<"/", "w", "i", "k", "i", "/">>

\* href.startswith(("http://", "https://", "mailto:", "#", "javascript:"))
SkippedSchemes == {<<"h", "t", "t", "p", ":", "/", "/">>, <<"h", "t", "t", "p", "s", ":", "/", "/">>, <<"m", "a", "i", "l", "t", "o", ":">>, <<"#">>, <<"j", "a", "v", "a", "s", "c", "r", "i", "p", "t", ":">>}

\* path.startswith(("Special:", "api.php")), in the branch of absolute hrefs
AbsoluteLivePrefixes == {<<"S", "p", "e", "c", "i", "a", "l", ":">>, <<"a", "p", "i", ".", "p", "h", "p">>}

\* path.startswith(("Special:", "api.php", "index.php")), in the branch of
\* root-relative hrefs
RelativeLivePrefixes == {<<"S", "p", "e", "c", "i", "a", "l", ":">>, <<"a", "p", "i", ".", "p", "h", "p">>, <<"i", "n", "d", "e", "x", ".", "p", "h", "p">>}

StartsWithAny(s, prefixes) == \E q \in prefixes : StartsWith(s, q)

Drop(s, n) == SubSeq(s, n + 1, Len(s))

\* f"/wiki/{title_to_filename(path.replace('_', ' '))}"
ArchiveHref(rel) == WikiDirPrefix \o title_to_filename(Replace(rel, <<"_">>, <<" ">>))

\* the body of the loop: the href the anchor has afterwards
RewriteHref(href, base_url) ==
    IF StartsWithAny(href, SkippedSchemes)
    THEN IF StartsWith(href, base_url \o Slash) /\ ~StartsWithAny(Drop(href, Len(base_url) + 1), AbsoluteLivePrefixes)
         THEN ArchiveHref(Drop(href, Len(base_url) + 1))
         ELSE href
    ELSE IF StartsWith(href, Slash)
    THEN IF StartsWithAny(Tail(href), RelativeLivePrefixes)
         THEN base_url \o href
         ELSE ArchiveHref(Tail(href))
    ELSE href

\* for a in soup.find_all("a", href=True): anchors without href are not visited
rewrite_internal_links(soup, base_url) ==
    [i \in DOMAIN soup |-> IF soup[i].has_href THEN [soup[i] EXCEPT !.href = RewriteHref(@, base_url)] ELSE soup[i]]

\* a page has at most MaxAnchors <a> elements
MaxAnchors == 2

HrefPrefixes == {<<"h", "t", "t", "p", "s", ":", "/", "/", "w", "/">>, <<"h", "t", "t", "p", "s", ":", "/", "/", "o", "/">>, <<"h", "t", "t", "p", ":", "/", "/", "w", "/">>, <<"/">>, <<"/", "/", "o", "/">>, <<"m", "a", "i", "l", "t", "o", ":">>, <<"#">>, <<"j", "a", "v", "a", "s", "c", "r", "i", "p", "t", ":">>, <<>>}

HrefPaths == {<<"S", "p", "e", "c", "i", "a", "l", ":", "E">>, <<"a", "p", "i", ".", "p", "h", "p">>, <<"i", "n", "d", "e", "x", ".", "p", "h", "p">>, <<"F", "_", "b", ":">>}

Anchors == {[has_href |-> FALSE, href |-> <<>>]} \cup {[has_href |-> TRUE, href |-> a \o b] : a \in HrefPrefixes, b \in HrefPaths}

LinksInit ==
    /\ w_pc = "parsed"
    /\ w_in \in SeqsUpTo(Anchors, MaxAnchors)
    /\ w_soup = w_in
    /\ w_once = <<>>

\* process_page: rewrite_internal_links(soup, BASE_URL)
RewriteLinks ==
    /\ w_pc = "parsed"
    /\ w_soup' = rewrite_internal_links(w_soup, BaseUrl)
    /\ w_once' = w_soup'
    /\ w_pc' = "rewritten"
    /\ UNCHANGED <<notLinksVars, w_in>>

\* rewrite_internal_links applied to the soup it has already rewritten
RewriteLinksAgain ==
    /\ w_pc = "rewritten"
    /\ w_soup' = rewrite_internal_links(w_soup, BaseUrl)
    /\ w_pc' = "rewritten_again"
    /\ UNCHANGED <<notLinksVars, w_in, w_once>>

LinksNext ==
    \/ RewriteLinks
    \/ RewriteLinksAgain

InitLinks == CrawlInit /\ CodecIdle /\ RequestIdle /\ ListingIdle /\ ExportIdle /\ SaveIdle /\ PageIdle /\ ImporterIdle /\ RaceIdle /\ LinksInit

\* the link rewriting of one fetched page
SpecLinks == InitLinks /\ [][LinksNext]_vars

\* the administrative prefixes
AdministrativePrefixes == {<<"S", "p", "e", "c", "i", "a", "l", ":">>, <<"a", "p", "i", ".", "p", "h", "p">>, <<"i", "n", "d", "e", "x", ".", "p", "h", "p">>}

\* the href an anchor to the source-site path "rel" is to get
ExpectedHref(rel) == IF StartsWithAny(rel, AdministrativePrefixes) THEN BaseUrl \o Slash \o rel ELSE ArchiveHref(rel)

\* the anchor's href is "/path" (not "//...") or BaseUrl + "/path"
TargetsSourceSite(href) == (StartsWith(href, Slash) /\ ~StartsWith(href, Slash \o Slash)) \/ StartsWith(href, BaseUrl \o Slash)

SourcePath(href) == IF StartsWith(href, Slash) THEN Tail(href) ELSE Drop(href, Len(BaseUrl) + 1)

\* C19: an anchor that targets the source site, root-relative or absolute,
\* gets the live-site URL BaseUrl + "/" + path when path starts with an
\* administrative prefix and "/wiki/" + title_to_filename(path with "_"
\* replaced by " ") otherwise.
C19_SourceLinksClassifiedAlike ==
    w_pc = "rewritten" =>
        \A i \in DOMAIN w_in :
            (w_in[i].has_href /\ TargetsSourceSite(w_in[i].href)) =>
                w_soup[i].href = ExpectedHref(SourcePath(w_in[i].href))

\* the href does not target the source site: another scheme or host, a
\* protocol-relative URL, a fragment
TargetsElsewhere(href) ==
    \/ StartsWithAny(href, SkippedSchemes) /\ ~StartsWith(href, BaseUrl \o Slash)
    \/ StartsWith(href, Slash \o Slash)

\* C20: an anchor that does not target the source site (http/https to another
\* host, protocol-relative, mailto:, fragment, javascript:) keeps its href.
C20_OtherLinksUntouched ==
    w_pc = "rewritten" =>
        \A i \in DOMAIN w_in :
            (w_in[i].has_href /\ TargetsElsewhere(w_in[i].href)) => w_soup[i].href = w_in[i].href

\* C21: link rewriting is idempotent: rewriting the soup a second time leaves
\* every href as the first rewriting left it; an already-local "/wiki/..."
\* href is not rewritten again.
C21_RewritingIsIdempotent ==
    w_pc = "rewritten_again" => w_soup = w_once

(***************************************************************************)
(* process_page from make_resources_absolute on (scripts/crawl.py).  The   *)
(* steps before it change attributes of <a> and <img> elements only.  An   *)
(* element is [tag, url]: url is the href of a link and of an anchor, the  *)
(* src of a script.                                                        *)
(***************************************************************************)
Node(tag, url) == [tag |-> tag, url |-> url]

\* soup.new_tag("link", rel="stylesheet", href="/assets/archive.css")
ArchiveCss == Node("link", <<"/", "a", "s", "s", "e", "t", "s", "/", "a", ".", "c", "s", "s">>)

\* soup.new_tag("script", src="/assets/archive.js")
ArchiveJs == Node("script", <<"/", "a", "s", "s", "e", "t", "s", "/", "a", ".", "j", "s">>)

\* the parsed banner_html: the div with id "archive-banner"
ArchiveBanner == Node("div#archive-banner", <<>>)

\* if href.startswith("/") and not href.startswith("//"): base_url + href
AbsoluteResource(url, base_url) == IF StartsWith(url, Slash) /\ ~StartsWith(url, Slash \o Slash) THEN base_url \o url ELSE url

\* both loops of make_resources_absolute over the elements of one parent
make_resources_absolute(nodes, base_url) ==
    [i \in DOMAIN nodes |-> IF nodes[i].tag \in {"link", "script"} THEN [nodes[i] EXCEPT !.url = AbsoluteResource(@, base_url)] ELSE nodes[i]]

\* a bug HeadWithAssets could have: the two elements are put in front
HeadWithAssets_prepended(nodes) == <<ArchiveCss, ArchiveJs>> \o nodes

\* head.append(css_link); head.append(js_link)
HeadWithAssets(nodes) == Append(Append(nodes, ArchiveCss), ArchiveJs)

\* body.insert(0, banner)
BodyWithBanner(nodes) == <<ArchiveBanner>> \o nodes

\* a fetched page has at most MaxHeadNodes elements in its head
MaxHeadNodes == 2

HeadNodes == {Node("meta", <<>>), Node("link", <<"/", "s", ".", "c", "s", "s">>), Node("link", <<"/", "/", "o", "/", "s", ".", "c", "s", "s">>), Node("script", <<"/", "s", ".", "j", "s">>), Node("script", <<"h", "t", "t", "p", "s", ":", "/", "/", "o", "/", "s", ".", "j", "s">>)}

BodyNodes == {Node("p", <<>>), Node("script", <<"/", "b", ".", "j", "s">>)}

PageInit ==
    /\ b_pc = "links_rewritten"
    /\ b_head \in {NoElement} \cup {[present |-> TRUE, nodes |-> ns] : ns \in SeqsUpTo(HeadNodes, MaxHeadNodes)}
    /\ b_body \in {NoElement} \cup {[present |-> TRUE, nodes |-> ns] : ns \in SeqsUpTo(BodyNodes, 1)}

\* make_resources_absolute(soup, BASE_URL)
MakeResourcesAbsolute ==
    /\ b_pc = "links_rewritten"
    /\ b_head' = [b_head EXCEPT !.nodes = make_resources_absolute(@, BaseUrl)]
    /\ b_body' = [b_body EXCEPT !.nodes = make_resources_absolute(@, BaseUrl)]
    /\ b_pc' = "resources_absolute"
    /\ UNCHANGED notPageVars

\* inject_archive_banner(soup, crawl_timestamp)
InjectArchiveBanner ==
    /\ b_pc = "resources_absolute"
    /\ b_head' = IF b_head.present THEN [b_head EXCEPT !.nodes = HeadWithAssets(@)] ELSE b_head
    /\ b_body' = IF b_body.present THEN [b_body EXCEPT !.nodes = BodyWithBanner(@)] ELSE b_body
    /\ b_pc' = "banner_injected"
    /\ UNCHANGED notPageVars

PageNext ==
    \/ MakeResourcesAbsolute
    \/ InjectArchiveBanner

InitPage == CrawlInit /\ CodecIdle /\ RequestIdle /\ ListingIdle /\ ExportIdle /\ SaveIdle /\ LinksIdle /\ ImporterIdle /\ RaceIdle /\ PageInit

\* the last two steps of process_page on one fetched page
SpecPage == InitPage /\ [][PageNext]_vars

\* C22: after the banner step the banner block is the first child of <body>,
\* and the links to the archive stylesheet and script are the first children
\* of <head>, with their local /assets paths.
C22_BannerAndAssetsComeFirst ==
    b_pc = "banner_injected" =>
        /\ b_body.present => b_body.nodes[1] = ArchiveBanner
        /\ b_head.present => (b_head.nodes[1] = ArchiveCss /\ b_head.nodes[2] = ArchiveJs)

\* C22 as the code has it: after the banner step the banner block is the
\* first child of <body>; the links to the archive stylesheet and script are
\* the last two children of <head>, in that order, behind every element the
\* page had, and carry their local /assets paths; a page without <head> or
\* without <body> gets nothing there.
C22_BannerFirstAssetsLast ==
    b_pc = "banner_injected" =>
        /\ b_body.present => b_body.nodes[1] = ArchiveBanner
        /\ b_head.present =>
             /\ Len(b_head.nodes) >= 2
             /\ SubSeq(b_head.nodes, Len(b_head.nodes) - 1, Len(b_head.nodes)) = <<ArchiveCss, ArchiveJs>>
             /\ \A i \in 1..(Len(b_head.nodes) - 2) : b_head.nodes[i] \notin {ArchiveCss, ArchiveJs}
             /\ StartsWith(ArchiveCss.url, <<"/", "a", "s", "s", "e", "t", "s", "/">>)
             /\ StartsWith(ArchiveJs.url, <<"/", "a", "s", "s", "e", "t", "s", "/">>)
        /\ ~b_body.present => b_body.nodes = <<>>
        /\ ~b_head.present => b_head.nodes = <<>>

\* a page whose head had a local stylesheet, now pointing at the live site,
\* in front of the two archive assets, and whose body starts with the banner
C22_Witness ==
    /\ b_pc = "banner_injected"
    /\ b_head.present /\ Len(b_head.nodes) = 4
    /\ b_head.nodes[1] = Node("link", BaseUrl \o <<"/", "s", ".", "c", "s", "s">>)
    /\ b_head.nodes[3] = ArchiveCss
    /\ b_body.present /\ Len(b_body.nodes) = 2 /\ b_body.nodes[1] = ArchiveBanner

(***************************************************************************)
(* The importer's main (server/import-content.py) and the read-only flag   *)
(* of LocalSettings.php.  The file is a character sequence; the variable   *)
(* name $wgReadOnly is shortened to $R.                                    *)
(***************************************************************************)
\* '$wgReadOnly ='
ReadOnlyLine == <<"$", "R", " ", "=">>

\* '# $wgReadOnly ='
CommentedReadOnlyLine == <<"#", " ", "$", "R", " ", "=">>

\* what one of the two functions can end in: the file rewritten; an exception
\* before the file was opened for writing; an exception while writing, after
\* open(..., 'w') had emptied the file
SettingsOutcomes == {"ok", "error", "write_error"}

SettingsAfter(content, new_content, outcome) == IF outcome = "ok" THEN new_content ELSE IF outcome = "error" THEN content ELSE <<>>

\* disable_read_only
disable_read_only(content, outcome) == SettingsAfter(content, Replace(content, ReadOnlyLine, CommentedReadOnlyLine), outcome)

\* enable_read_only
enable_read_only(content, outcome) == SettingsAfter(content, Replace(content, CommentedReadOnlyLine, ReadOnlyLine), outcome)

\* LocalSettings.php is made of at most MaxSettingsFrags of these fragments
MaxSettingsFrags == 2

SettingsFragments == {ReadOnlyLine, <<"#", " ">>, <<"#">>, <<"1", ";">>}

SettingsContents == {Concat(fs) : fs \in SeqsUpTo(SettingsFragments, MaxSettingsFrags)}

\* the modes in the order main runs them
ImportModes == <<"full", "templates", "recent", "images">>

ImporterInit ==
    /\ i_pc = "parse_args"
    /\ i_modes \in SUBSET {ImportModes[k] : k \in DOMAIN ImportModes}
    /\ i_initial \in SettingsContents
    /\ i_settings = i_initial
    /\ i_events = <<>>

\* no mode given: parser.print_help() and sys.exit(1)
ImporterNoMode ==
    /\ i_pc = "parse_args"
    /\ i_modes = {}
    /\ i_pc' = "exited"
    /\ UNCHANGED <<notImporterVars, i_modes, i_initial, i_settings, i_events>>

\* disable_read_only(); its return value is not looked at
ImporterDisable ==
    /\ i_pc = "parse_args"
    /\ i_modes # {}
    /\ \E outcome \in SettingsOutcomes :
        /\ i_settings' = disable_read_only(i_settings, outcome)
        /\ i_events' = Append(i_events, <<"disable_read_only", outcome>>)
    /\ i_pc' = "try"
    /\ UNCHANGED <<notImporterVars, i_modes, i_initial>>

\* the modes of the try block that have not run yet
PendingModes == {k \in DOMAIN ImportModes : ImportModes[k] \in i_modes /\ \A e \in DOMAIN i_events : i_events[e][1] # ImportModes[k]}

\* the next selected import function runs; it returns or raises
ImporterRunMode ==
    /\ i_pc = "try"
    /\ PendingModes # {}
    /\ LET k == CHOOSE j \in PendingModes : \A m \in PendingModes : j <= m
       IN  \E outcome \in {"returned", "raised"} :
            /\ i_events' = Append(i_events, <<ImportModes[k], outcome>>)
            /\ i_pc' = IF outcome = "raised" THEN "finally" ELSE "try"
    /\ UNCHANGED <<notImporterVars, i_modes, i_initial, i_settings>>

\* the try block is left normally
ImporterTryDone ==
    /\ i_pc = "try"
    /\ PendingModes = {}
    /\ i_pc' = "finally"
    /\ UNCHANGED <<notImporterVars, i_modes, i_initial, i_settings, i_events>>

\* finally: enable_read_only()
ImporterEnable ==
    /\ i_pc = "finally"
    /\ \E outcome \in SettingsOutcomes :
        /\ i_settings' = enable_read_only(i_settings, outcome)
        /\ i_events' = Append(i_events, <<"enable_read_only", outcome>>)
    /\ i_pc' = "exited"
    /\ UNCHANGED <<notImporterVars, i_modes, i_initial>>

ImporterNext ==
    \/ ImporterNoMode
    \/ ImporterDisable
    \/ ImporterRunMode
    \/ ImporterTryDone
    \/ ImporterEnable

InitImporter == CrawlInit /\ CodecIdle /\ RequestIdle /\ ListingIdle /\ ExportIdle /\ SaveIdle /\ LinksIdle /\ PageIdle /\ RaceIdle /\ ImporterInit

\* one execution of the importer
SpecImporter == InitImporter /\ [][ImporterNext]_vars

\* C23: an execution of main with at least one mode has called
\* enable_read_only as its last step, after every import function that ran,
\* whether the last of them returned or raised; and LocalSettings.php is then
\* what it was before disable_read_only ran, whatever it was.
C23_ReadOnlyRestored ==
    (i_pc = "exited" /\ i_modes # {}) =>
        /\ i_events[Len(i_events)][1] = "enable_read_only"
        /\ \A e \in 1..(Len(i_events) - 1) : i_events[e][1] # "enable_read_only"
        /\ i_settings = i_initial

(***************************************************************************)
(* Filenames of distinct titles.                                           *)
(***************************************************************************)
\* C26: title_to_filename is injective on page titles: no title other than
\* the one that was encoded has the filename title_to_filename returned, so no
\* page's output file is overwritten by the file of a different page.
C26_TitleToFilenameInjective ==
    c_pc = "encoded" =>
        \A other \in CodecTitles :
            title_to_filename(other) = c_filename => other = c_title

(***************************************************************************)
(* Manifest entries and their files.                                       *)
(***************************************************************************)
\* the entries of pages name the files of their titles, and each of these files
\* is in dir, written by the crawl of the entry or by a later one
EntriesHaveFiles(pages, dir) ==
    \A t \in DOMAIN pages :
        /\ pages[t].filename = title_to_filename(t)
        /\ pages[t].filename \in DOMAIN dir
        /\ dir[pages[t].filename] >= pages[t].crawled

\* C27: in every manifest a crawl run persists, each entry of a title has
\* filename = title_to_filename(title), and the file of that name was written to
\* the output directory before the manifest with the entry was saved: the
\* entries of the run's manifest and of the persisted one always have their
\* files, and the files are there in the state from which the save is made.
C27_PersistedEntriesHaveFiles ==
    /\ [](EntriesHaveFiles(Persisted.pages, wikiDir)
           /\ EntriesHaveFiles(manifest.pages, wikiDir))
    /\ [][ manifestFile' # manifestFile =>
             /\ manifestFile'.exists
             /\ EntriesHaveFiles(manifestFile'.content.pages, wikiDir) ]_vars

\* an incremental run has saved a manifest with an entry it wrote and an entry
\* of an earlier run
C27_Witness ==
    /\ Returned /\ path = "incr" /\ result = "saved"
    /\ \E t \in hist.written : Persisted.pages[t].crawled = crawl_timestamp
    /\ \E t \in (DOMAIN Persisted.pages) \ hist.written : t \in DOMAIN Prior.pages

(***************************************************************************)
(* The counters of a run.                                                  *)
(***************************************************************************)
\* the candidates the loop of the run has still to take
Remaining == IF path = "full" THEN Len(all_pages) ELSE Cardinality(changed_pages)

\* C29: in a crawl run that processes pages, processed + skipped + failed is
\* the number of candidates the loop has taken, so at completion it is the
\* number of listed pages (full crawl) or of changed titles (incremental
\* crawl); and processed is the number of entries the run wrote, each of which
\* is in the persisted manifest with the run's timestamp.
C29_CountersPartitionCandidates ==
    /\ pc = "pages" =>
         /\ processed + skipped + failed + Remaining = Cardinality(hist.listed)
         /\ processed = Cardinality(hist.written)
    /\ (Returned /\ result = "saved") =>
         /\ processed + skipped + failed = Cardinality(hist.listed)
         /\ processed = Cardinality(hist.written)
         /\ \A t \in hist.written :
              /\ t \in DOMAIN Persisted.pages
              /\ Persisted.pages[t].crawled = crawl_timestamp
         /\ path = "full" => DOMAIN Persisted.pages = hist.written

\* a run has completed with a page archived, a page skipped and a page failed
C29_Witness ==
    /\ Returned /\ result = "saved"
    /\ processed > 0 /\ skipped > 0 /\ failed > 0
    /\ Cardinality(hist.listed) = 3

(***************************************************************************)
(* Exclusions in a full crawl.                                             *)
(***************************************************************************)
\* the title starts with a configured namespace prefix
HasSkippedPrefix(title) == \E ns \in NamespacesToSkip : StartsWith(title, ns)

\* the title is in the exclusion set the run derived from the templates and is
\* not opted in
TemplateExcluded(title) == title \in char_pages /\ title \notin OptedIn

\* C25: in a full crawl, a page whose title starts with a configured namespace
\* prefix, or which is in the run's template-derived exclusion set and not
\* opted in, is never fetched, never written and never in the manifest of the
\* run or the manifest it persists; an opted-in page of the exclusion set is
\* fetched, and an opted-in page with a namespace prefix is not.
C25_ExcludedNeverArchived ==
    (path = "full" /\ pc \in {"pages", "returned"}) =>
        /\ \A t \in Titles :
             (HasSkippedPrefix(t) \/ TemplateExcluded(t)) =>
                /\ t \notin hist.fetched
                /\ t \notin hist.written
                /\ t \notin DOMAIN manifest.pages
                /\ Returned => t \notin DOMAIN Persisted.pages
        /\ Returned =>
             \A t \in hist.listed \cap char_pages \cap OptedIn :
                ~HasSkippedPrefix(t) => t \in hist.fetched

\* a full crawl has returned: it listed an opted-in page with a namespace
\* prefix and a page of the exclusion set that is not opted in, and archived an
\* opted-in page of the exclusion set
C25_Witness ==
    /\ Returned /\ path = "full"
    /\ \E t \in hist.listed \cap OptedIn : HasSkippedPrefix(t)
    /\ \E t \in hist.listed : TemplateExcluded(t)
    /\ \E t \in hist.written \cap char_pages \cap OptedIn : t \in DOMAIN Persisted.pages

(***************************************************************************)
(* Repeated incremental runs on an archive a full crawl left behind.       *)
(***************************************************************************)
\* the titles should_skip_page lets through whatever get_character_pages gave
NeverExcluded ==
    {t \in Titles : /\ ~should_skip_page(t, RemoteCharPages, OptedIn)
                    /\ ~should_skip_page(t, {}, OptedIn)}

\* the archive after a full crawl in minute 0: every page it fetched has its
\* file and its entry
ArchiveAfterFull(written) ==
    /\ manifestFile = save_manifest(FullCrawlResult(written, 0))
    /\ wikiDir = [f \in {title_to_filename(t) : t \in written} |-> 0]

IncrementalInit ==
    /\ now = 0
    /\ remotePages = Titles
    /\ lastChange = [t \in Titles |-> None]
    /\ edits = 0
    /\ \E written \in SUBSET NeverExcluded : ArchiveAfterFull(written)
    /\ pc = "idle"
    /\ invoked = "none"
    /\ path = "none"
    /\ manifest = DefaultManifest
    /\ crawl_timestamp = None
    /\ all_pages = <<>>
    /\ changed_pages = {}
    /\ char_pages = {}
    /\ processed = 0
    /\ skipped = 0
    /\ failed = 0
    /\ result = "none"
    /\ hist = NoHistory

\* a step of an incremental invocation
IncrementalStep ==
    \/ StartIncremental
    \/ ListRecentChanges
    \/ Exclusions
    \/ ProcessPageIncremental
    \/ FinishIncremental
    \/ Exit

IncrementalNext ==
    \/ Tick
    \/ RemoteEdit
    \/ IncrementalStep

\* get_recent_changes with every request of its pagination answered
ListRecentChangesComplete ==
    /\ pc = "get_recent_changes"
    /\ ListRecentChanges
    /\ hist'.listing_complete

\* the loop body for title with process_page returning the page
FetchSucceeds(title) ==
    /\ pc = "pages" /\ path = "incr"
    /\ title \in changed_pages
    /\ ProcessPageIncremental
    /\ title \in hist'.written

InitIncremental == IncrementalInit /\ CodecIdle /\ RequestIdle /\ ListingIdle /\ ExportIdle /\ SaveIdle /\ LinksIdle /\ PageIdle /\ ImporterIdle /\ RaceIdle

\* incremental runs repeated for ever (cron), each run going on to its end; a
\* listing that is requested again and again is eventually complete, and a page
\* that is fetched again and again is eventually fetched
IncrementalFairness ==
    /\ WF_vars(IncrementalStep)
    /\ SF_vars(ListRecentChangesComplete)
    /\ \A t \in Titles : SF_vars(FetchSucceeds(t))

SpecIncremental == InitIncremental /\ [][IncrementalNext]_vars /\ IncrementalFairness

\* between two runs, title has an edit|new change at tick c, which is not
\* before the persisted last_crawl
ChangePending(title, c) ==
    /\ pc = "idle"
    /\ lastChange[title] = c
    /\ c >= ToApi(Persisted.last_crawl)

\* the persisted manifest has an entry of title from a crawl of the minute of
\* tick c or a later one
ChangeArchived(title, c) ==
    /\ title \in DOMAIN Persisted.pages
    /\ Persisted.pages[title].crawled >= FormatMinute(c)

\* C24: under repeated incremental runs in which fetches and listings
\* eventually succeed, a page with an edit|new change at or after the persisted
\* last_crawl, and which no exclusion rule covers, eventually has a persisted
\* manifest entry of a crawl not older than the change, even if its fetch
\* failed, or the recent-changes listing stopped part-way, in an earlier run.
C24_ChangedPagesEventuallyArchived ==
    \A t \in NeverExcluded : \A c \in 0..MaxTick :
        ChangePending(t, c) ~> ChangeArchived(t, c)

(***************************************************************************)
(* Two invocations of crawl.py --incremental on one manifest path; each    *)
(* load_manifest and each save_manifest is one step.                       *)
(***************************************************************************)
\* the titles get_recent_changes may report to either invocation
RaceTitles == {TitleA, TitleB}

\* the minutes in which the invocations may start
RaceTimestamps == {1, 2}

\* a change save_manifest could have: entries of the file on disk that the
\* dict lacks are kept
RaceSaved_merged(file, m) ==
    save_manifest([m EXCEPT !.pages =
        [t \in (DOMAIN load_manifest(file).pages) \cup (DOMAIN m.pages) |->
            IF t \in DOMAIN m.pages THEN m.pages[t] ELSE load_manifest(file).pages[t]]])

\* save_manifest: open(MANIFEST_PATH, "w") and json.dump of the dict of the
\* invocation; what the file held is gone
RaceSaved(file, m) == save_manifest(m)

\* a full crawl in minute 0 that archived no page has left its manifest
RaceInit ==
    /\ k_pc = [r \in Runs |-> "start"]
    /\ k_file = save_manifest(FullCrawlResult({}, 0))
    /\ k_manifest = [r \in Runs |-> DefaultManifest]
    /\ k_ts = [r \in Runs |-> None]
    /\ k_todo = [r \in Runs |-> {}]
    /\ k_wrote = [r \in Runs |-> {}]
    /\ k_events = <<>>

\* crawl_incremental: manifest = load_manifest(), crawl_timestamp, and
\* changed_pages = get_recent_changes(...) with its early return
RaceLoad(r) ==
    /\ k_pc[r] = "start"
    /\ k_manifest' = [k_manifest EXCEPT ![r] = load_manifest(k_file)]
    /\ \E ts \in RaceTimestamps :
        /\ \A q \in Runs : k_ts[q] <= ts
        /\ k_ts' = [k_ts EXCEPT ![r] = ts]
    /\ \E changed \in SUBSET RaceTitles :
        /\ k_todo' = [k_todo EXCEPT ![r] = changed]
        /\ k_pc' = [k_pc EXCEPT ![r] = IF ReturnsEarly(changed) THEN "returned" ELSE "pages"]
    /\ k_events' = Append(k_events, <<"load", r>>)
    /\ UNCHANGED <<notRaceVars, k_file, k_wrote>>

\* crawl_incremental: the loop body for one changed title
RacePage(r) ==
    /\ k_pc[r] = "pages"
    /\ \E title \in k_todo[r] :
        /\ k_todo' = [k_todo EXCEPT ![r] = @ \ {title}]
        /\ \E html \in {"page", "None"} :
            IF html # "None"
            THEN /\ k_manifest' = [k_manifest EXCEPT ![r].pages =
                                     UpsertPage(@, title, title_to_filename(title), k_ts[r])]
                 /\ k_wrote' = [k_wrote EXCEPT ![r] = @ \cup {title}]
            ELSE UNCHANGED <<k_manifest, k_wrote>>
    /\ UNCHANGED <<notRaceVars, k_pc, k_file, k_ts, k_events>>

\* crawl_incremental: manifest["last_crawl"] = crawl_timestamp and
\* save_manifest(manifest)
RaceSave(r) ==
    /\ k_pc[r] = "pages"
    /\ k_todo[r] = {}
    /\ k_manifest' = [k_manifest EXCEPT ![r] = AdvanceLastCrawl(@, k_ts[r])]
    /\ k_file' = RaceSaved(k_file, k_manifest'[r])
    /\ k_pc' = [k_pc EXCEPT ![r] = "saved"]
    /\ k_events' = Append(k_events, <<"save", r>>)
    /\ UNCHANGED <<notRaceVars, k_ts, k_todo, k_wrote>>

RaceNext ==
    \/ \E r \in Runs : RaceLoad(r)
    \/ \E r \in Runs : RacePage(r)
    \/ \E r \in Runs : RaceSave(r)

InitRace == CrawlInit /\ CodecIdle /\ RequestIdle /\ ListingIdle /\ ExportIdle /\ SaveIdle /\ LinksIdle /\ PageIdle /\ ImporterIdle /\ RaceInit

\* two invocations, their steps interleaved in any way
SpecRace == InitRace /\ [][RaceNext]_vars

\* the position of a call in k_events, 0 when it was not made
Pos(e) == IF \E i \in DOMAIN k_events : k_events[i] = e
          THEN CHOOSE i \in DOMAIN k_events : k_events[i] = e
          ELSE 0

\* the invocation whose save_manifest was the last one
LastSaver(r) == k_events # <<>> /\ k_events[Len(k_events)] = <<"save", r>>

\* C30: two invocations on one manifest path race, and nothing in the code
\* prevents it: what the file holds after both is the dict of the invocation
\* that saved last, with its last_crawl; an entry the other invocation wrote,
\* for a title the last one did not write, is in the file exactly when the
\* other's save_manifest came before the last one's load_manifest, and is lost
\* in every other interleaving.
C30_LastSaveWinsWholesale ==
    \A r \in Runs :
        (LastSaver(r) /\ k_pc[r] = "saved") =>
            /\ k_file = save_manifest(k_manifest[r])
            /\ load_manifest(k_file).last_crawl = k_ts[r]
            /\ \A q \in Runs \ {r} : \A t \in k_wrote[q] \ k_wrote[r] :
                 k_pc[q] = "saved" =>
                    (t \in DOMAIN load_manifest(k_file).pages
                        <=> Pos(<<"save", q>>) < Pos(<<"load", r>>))

\* both invocations have saved, and the file lacks an entry and the last_crawl
\* that one of them wrote
C30_Witness ==
    /\ \A r \in Runs : k_pc[r] = "saved"
    /\ \E q \in Runs :
        /\ \E t \in k_wrote[q] : t \notin DOMAIN load_manifest(k_file).pages
        /\ load_manifest(k_file).last_crawl # k_ts[q]
====
